---- MODULE Spec2Model ----
(***************************************************************************)
(* A model of the MCP message router (src/mcp/core/router.py) and of the   *)
(* study agent it dispatches to (src/mcp/agents/estudos_agent.py).         *)
(*                                                                         *)
(* Every envelope given to MCPRouter.handle_message occupies one slot; the *)
(* slot's pc follows the envelope through handle_message, the dispatch     *)
(* task (_process_with_agent) and the error path (_handle_error), one      *)
(* step per await.                                                         *)
(***************************************************************************)
EXTENDS Integers, Sequences, FiniteSets, TLC

\* Number of envelopes handed to the router in one behaviour.
MaxMsgs == 2

Slots == 1..MaxMsgs

\* Python's None.
None == "None"

\* Truth value of an Optional[str] in a Python condition: None and "" are false.
Truthy(s) == s # None /\ s # ""

\* A key a dict does not hold.
Missing == "missing"

\* dict.get(key, default), given what the dict holds under the key.
get(held, default) == IF held = Missing THEN default ELSE held

(***************************************************************************)
(* Envelopes (src/mcp/schemas/message.py)                                  *)
(***************************************************************************)
MessageType == {"command", "query", "response", "event", "error"}

\* The slot of an envelope that has not been handed to the router yet.
\* Message.context, a dict: the keys the program reads or writes.
Context(chat_id, user_id, source) ==
    [chat_id |-> chat_id, user_id |-> user_id, source |-> source]

\* default_factory=dict
EmptyContext == Context(Missing, Missing, Missing)

\* The context an adapter gives its envelopes: the TelegramAdapter the chat and
\* the user of the update, the WebhookAdapter neither (its one key,
\* webhook_source, is read nowhere).
AdapterContext(source, user_id) ==
    IF source = "telegram"
      THEN Context("chat1", IF user_id = None THEN Missing ELSE user_id, Missing)
      ELSE EmptyContext

NoEnvelope ==
    [id |-> 0, type |-> None, source |-> None, target |-> None, user_id |-> None,
     context |-> EmptyContext]

Envelope(id, type, source, target, user_id) ==
    [id |-> id, type |-> type, source |-> source, target |-> target, user_id |-> user_id,
     context |-> AdapterContext(source, user_id)]

\* The targets, sources and users of the envelopes explored.
Targets == {None, "", "estudos", "outro", "telegram"}
Sources == {"telegram", "webhook"}
Users == {None, "u1"}

(***************************************************************************)
(* Agents and adapters.  An object is named by a string; agent_id and      *)
(* adapter_id give the id its constructor fixed.                           *)
(*   estudos_agent    an EstudosAgent (its process_message never raises)   *)
(*   estudos_other    another AgentBase implementation with id "estudos"   *)
(*   outro_agent      an AgentBase implementation with id "outro"          *)
(*   telegram_adapter the TelegramAdapter, webhook_adapter the             *)
(*   WebhookAdapter (their send_message never raises), telegram_other      *)
(*   and webhook_other other AdapterBase implementations with the ids      *)
(*   "telegram" and "webhook"                                              *)
(***************************************************************************)
AgentObjs == {"estudos_agent", "estudos_other", "outro_agent"}

agent_id(a) == IF a = "outro_agent" THEN "outro" ELSE "estudos"

\* EstudosAgent.process_message catches every Exception; another AgentBase may raise.
AgentCanRaise(a) == a # "estudos_agent"

AdapterObjs == {"telegram_adapter", "telegram_other", "webhook_adapter", "webhook_other"}

adapter_id(a) == IF a \in {"webhook_adapter", "webhook_other"} THEN "webhook" ELSE "telegram"

\* TelegramAdapter.send_message and WebhookAdapter.send_message catch or do
\* nothing; another AdapterBase may raise.
SendCanRaise(a) == a \in {"telegram_other", "webhook_other"}

\* TelegramAdapter.initialize catches every Exception and WebhookAdapter's only
\* logs; TelegramAdapter.shutdown and WebhookAdapter.shutdown do not raise
\* either.  Another AdapterBase may raise from both.
InitializeCanRaise(a) == a \in {"telegram_other", "webhook_other"}

ShutdownCanRaise(a) == a \in {"telegram_other", "webhook_other"}

\* WebhookAdapter.initialize and both shutdown methods of the repository have
\* no await: once started they end before another coroutine runs.
InitializeSuspends(a) == a # "webhook_adapter"

ShutdownSuspends(a) == a \in {"telegram_other", "webhook_other"}

VARIABLES
    agents,          \* MCPRouter.agents: agent id -> agent object
    adapters,        \* MCPRouter.adapters: adapter id -> adapter object
    message_handler, \* AdapterBase.message_handler of each adapter object
    running_tasks,   \* MCPRouter.running_tasks: the slots whose task is in the set
    env,             \* the envelope of each slot
    pc,              \* where the handling of each envelope stands
    task_agent,      \* the agent argument of the slot's _process_with_agent task
    awaiting,        \* the adapter object whose send_message the slot awaits
    response,        \* the value agent.process_message returned to the task
    sent,            \* the send_message calls made for the envelope, in order
    built,           \* the ErrorMessages _handle_error built for the envelope
    ret,             \* what handle_message gave its caller (NoMessage: None)
    consulted,       \* whether _determine_agent_for_message was called
    superseded,      \* agent objects whose binding another register_agent replaced
    model_provider,  \* EstudosAgent.model_provider: "gemini", or None
    user_state,      \* StateManager: the stored state of each user
    call_pc,         \* where each call of EstudosAgent.process_message stands
    call_msg,        \* the message of the call
    call_topico,     \* the handler's local variable topico
    call_result,     \* the ResponseMessage the call returned
    call_exception,  \* the exception raised during the call, or None
    call_handler,    \* the capability handler the call invoked, or None
    init_call,       \* where the call of MCPRouter.initialize stands
    init_task,       \* where each adapter's initialize() stands
    shutdown_call,   \* where the call of MCPRouter.shutdown stands
    shutdown_task,   \* where each adapter's shutdown() stands
    bot,             \* TelegramAdapter.bot: "Bot", or None
    outbox,          \* the texts Bot.send_message delivered, with their chat
    send_call,       \* the call of an adapter's send_message in hand
    external_input,  \* the call of an adapter's handle_external_input in hand
    state_call       \* the direct call of a StateManager method made last, with its return

router_vars == <<agents, adapters, message_handler, running_tasks, env, pc, task_agent,
                 awaiting, response, sent, built, ret, consulted, superseded>>

agent_vars == <<model_provider, user_state, call_pc, call_msg, call_topico, call_result,
                call_exception, call_handler>>

life_vars == <<init_call, init_task, shutdown_call, shutdown_task>>

adapter_vars == <<bot, outbox, send_call, external_input>>

state_vars == <<state_call>>

vars == <<router_vars, agent_vars, life_vars, adapter_vars, state_vars>>

EmptyDict == [x \in {} |-> None]

\* No message: the value of an unset variable and of a call that returns None.
NoMessage == [type |-> None]

\* handle_message has not ended yet / ended by raising.
Pending == [type |-> "pending"]
Raised == [type |-> "raised"]

RouterInit ==
    /\ agents = EmptyDict
    /\ adapters = EmptyDict
    /\ message_handler = [a \in AdapterObjs |-> None]
    /\ running_tasks = {}
    /\ env = [m \in Slots |-> NoEnvelope]
    /\ pc = [m \in Slots |-> "new"]
    /\ task_agent = [m \in Slots |-> None]
    /\ awaiting = [m \in Slots |-> None]
    /\ response = [m \in Slots |-> NoMessage]
    /\ sent = [m \in Slots |-> <<>>]
    /\ built = [m \in Slots |-> <<>>]
    /\ ret = [m \in Slots |-> Pending]
    /\ consulted = [m \in Slots |-> FALSE]
    /\ superseded = {}

\* The calls of EstudosAgent.process_message that can be in flight.
Calls == {1, 2}

\* quiz_atual as stored: no such key, null, or a list of questions, each
\* question given by its resposta_correta.
NoQuiz == [kind |-> Missing, items |-> <<>>]
NullQuiz == [kind |-> "null", items |-> <<>>]
QuizList(quiz) == [kind |-> "list", items |-> quiz]

\* StateManager.get_state of a user without a state file: {}.
EmptyState ==
    [ultimo_comando |-> Missing, ultimo_topico |-> Missing, quiz_atual |-> NoQuiz,
     last_update |-> Missing]

\* datetime.now().isoformat(): the time of a save, whatever it is.
now == "now"

\* No StateManager method has been called directly.
NoStateCall ==
    [method |-> None, user_id |-> None, data |-> EmptyState, state |-> EmptyState,
     deleted |-> FALSE]

NoCall == [type |-> None]

AgentIdle ==
    /\ user_state = [u \in {"u1"} |-> EmptyState]
    /\ state_call = NoStateCall
    /\ call_pc = [c \in Calls |-> "idle"]
    /\ call_msg = [c \in Calls |-> NoCall]
    /\ call_topico = [c \in Calls |-> ""]
    /\ call_result = [c \in Calls |-> NoMessage]
    /\ call_exception = [c \in Calls |-> None]
    /\ call_handler = [c \in Calls |-> None]

\* Neither MCPRouter.initialize nor MCPRouter.shutdown has been called.
LifeInit ==
    /\ init_call = "idle"
    /\ init_task = [a \in AdapterObjs |-> "none"]
    /\ shutdown_call = "idle"
    /\ shutdown_task = [a \in AdapterObjs |-> "none"]

\* No call of send_message or handle_external_input is in hand.
NoSend == [adapter |-> None, message |-> NoMessage, pc |-> "idle", text |-> None, log |-> None]

NoInput ==
    [adapter |-> None, raw |-> None, pc |-> "idle", result |-> NoMessage, exception |-> None]

\* TelegramAdapter.__init__: self.bot = None.
AdapterInit ==
    /\ bot = None
    /\ outbox = <<>>
    /\ send_call = NoSend
    /\ external_input = NoInput

Init ==
    /\ RouterInit
    /\ AgentIdle
    /\ LifeInit
    /\ AdapterInit
    /\ model_provider = "gemini"

\* EstudosAgent as initialize_mcp builds it: create_gemini_provider gives a
\* provider, or None when the API key is not configured.
InitAgent ==
    /\ RouterInit
    /\ AgentIdle
    /\ LifeInit
    /\ AdapterInit
    /\ model_provider \in {"gemini", None}

(***************************************************************************)
(* Messages built by the agent and by the router                           *)
(***************************************************************************)
\* A ResponseMessage that answers the envelope the router took last, as an
\* agent keeping "the current message" in a field of its own would.
ResponseMessage_last_message(agent, original_message, success) ==
    LET last == CHOOSE k \in Slots :
                  pc[k] # "new" /\ \A j \in Slots : pc[j] # "new" => j <= k IN
    [type |-> "response", source |-> agent_id(agent),
     target |-> original_message.source, user_id |-> original_message.user_id,
     context |-> original_message.context,
     response_to |-> env[last].id, success |-> success]

\* EstudosAgent._create_success_response / _create_error_response, and the
\* ResponseMessage constructors of the handlers: all copy the same fields of
\* the request.
ResponseMessage(agent, original_message, success) ==
    [type |-> "response", source |-> agent_id(agent),
     target |-> original_message.source, user_id |-> original_message.user_id,
     context |-> original_message.context,
     response_to |-> original_message.id, success |-> success]

\* An ErrorMessage addressed to the envelope's target instead of its source.
ErrorMessage_to_target(original_message, error_code) ==
    [type |-> "error", source |-> "mcp.router",
     target |-> original_message.target, error_code |-> error_code,
     original_message_id |-> original_message.id,
     user_id |-> original_message.user_id, context |-> EmptyContext]

\* The ErrorMessage _handle_error constructs.
ErrorMessage(original_message, error_code) ==
    [type |-> "error", source |-> "mcp.router",
     target |-> original_message.source, error_code |-> error_code,
     original_message_id |-> original_message.id,
     user_id |-> original_message.user_id, context |-> EmptyContext]

(***************************************************************************)
(* Registration                                                            *)
(***************************************************************************)
\* A register_agent under which the tasks look the agent up by id when they
\* process: the tasks in flight for the id pass to the new agent.
register_agent_rebinding_tasks(agent) ==
    /\ agents' = (agent_id(agent) :> agent) @@ agents
    /\ superseded' =
         (superseded \cup
            (IF agent_id(agent) \in DOMAIN agents
               THEN {agents[agent_id(agent)]} ELSE {})) \ {agent}
    /\ task_agent' = [m \in Slots |->
                        IF pc[m] = "agent" /\ agent_id(task_agent[m]) = agent_id(agent)
                          THEN agent ELSE task_agent[m]]
    /\ UNCHANGED <<adapters, message_handler, running_tasks, env, pc,
                   awaiting, response, sent, built, ret, consulted, agent_vars, life_vars, state_vars, adapter_vars>>

\* A register_agent that keeps the first binding of an id (dict.setdefault).
register_agent_keep_first(agent) ==
    /\ agents' = agents @@ (agent_id(agent) :> agent)
    /\ superseded' =
         (superseded \cup
            (IF agent_id(agent) \in DOMAIN agents
               THEN {agents[agent_id(agent)]} ELSE {})) \ {agent}
    /\ UNCHANGED <<adapters, message_handler, running_tasks, env, pc, task_agent,
                   awaiting, response, sent, built, ret, consulted, agent_vars, life_vars, state_vars, adapter_vars>>

\* self.agents[agent.agent_id] = agent
register_agent(agent) ==
    /\ agents' = (agent_id(agent) :> agent) @@ agents
    /\ superseded' =
         (superseded \cup
            (IF agent_id(agent) \in DOMAIN agents
               THEN {agents[agent_id(agent)]} ELSE {})) \ {agent}
    /\ UNCHANGED <<adapters, message_handler, running_tasks, env, pc, task_agent,
                   awaiting, response, sent, built, ret, consulted, agent_vars, life_vars, state_vars, adapter_vars>>

\* A register_adapter that keeps the adapter already bound to the id.
register_adapter_keep_first(adapter) ==
    /\ message_handler' = [message_handler EXCEPT ![adapter] = "handle_message"]
    /\ adapters' = adapters @@ (adapter_id(adapter) :> adapter)
    /\ UNCHANGED <<agents, running_tasks, env, pc, task_agent, awaiting, response,
                   sent, built, ret, consulted, superseded, agent_vars, life_vars, state_vars, adapter_vars>>

\* adapter.register_message_handler(self.handle_message);
\* self.adapters[adapter.adapter_id] = adapter
register_adapter(adapter) ==
    /\ message_handler' = [message_handler EXCEPT ![adapter] = "handle_message"]
    /\ adapters' = (adapter_id(adapter) :> adapter) @@ adapters
    /\ UNCHANGED <<agents, running_tasks, env, pc, task_agent, awaiting, response,
                   sent, built, ret, consulted, superseded, agent_vars, life_vars, state_vars, adapter_vars>>

(***************************************************************************)
(* Dispatch                                                                *)
(***************************************************************************)
\* A selection policy that sends queries to another agent.
_determine_agent_for_message_by_kind(message) ==
    IF message.type = "query" THEN "outro" ELSE "estudos"

\* The selection policy: a constant.
_determine_agent_for_message(message) == "estudos"

\* A handle_message that awaits _process_with_agent itself, one envelope at
\* a time: it starts only when no other agent call is in progress and has
\* returned nothing while the agent works.
create_task_awaited(m, agent) ==
    /\ \A k \in Slots \ {m} : pc[k] # "agent"
    /\ task_agent' = [task_agent EXCEPT ![m] = agent]
    /\ running_tasks' = running_tasks \cup {m}
    /\ pc' = [pc EXCEPT ![m] = "agent"]
    /\ UNCHANGED <<awaiting, sent, built, ret>>

\* task = asyncio.create_task(self._process_with_agent(agent, message));
\* self.running_tasks.add(task); task.add_done_callback(...discard).
\* handle_message then returns (None) without awaiting the task.
create_task(m, agent) ==
    /\ task_agent' = [task_agent EXCEPT ![m] = agent]
    /\ running_tasks' = running_tasks \cup {m}
    /\ pc' = [pc EXCEPT ![m] = "agent"]
    /\ ret' = [ret EXCEPT ![m] = NoMessage]
    /\ UNCHANGED <<awaiting, sent, built>>

\* A _handle_error that builds (and logs) the ErrorMessage but never sends it.
_handle_error_log_only(m, original_message, error_code, waitpc, endpc) ==
    /\ built' = [built EXCEPT ![m] =
                   Append(@, [type |-> "error", source |-> "mcp.router",
                              target |-> original_message.source,
                              error_code |-> error_code,
                              original_message_id |-> original_message.id,
                              user_id |-> original_message.user_id,
                              context |-> EmptyContext])]
    /\ pc' = [pc EXCEPT ![m] = endpc]
    /\ UNCHANGED <<awaiting, sent>>

\* _handle_error: build the ErrorMessage; if the envelope's source is a
\* registered adapter, call its send_message (the slot then waits at waitpc
\* for the call to end), otherwise return at once (the slot goes to endpc).
_handle_error(m, original_message, error_code, waitpc, endpc) ==
    LET error == ErrorMessage(original_message, error_code) IN
    /\ built' = [built EXCEPT ![m] = Append(@, error)]
    /\ IF original_message.source \in DOMAIN adapters
         THEN /\ awaiting' = [awaiting EXCEPT ![m] = adapters[original_message.source]]
              /\ sent' = [sent EXCEPT ![m] =
                            Append(@, [adapter |-> adapters[original_message.source],
                                       msg |-> error])]
              /\ pc' = [pc EXCEPT ![m] = waitpc]
         ELSE /\ pc' = [pc EXCEPT ![m] = endpc]
              /\ UNCHANGED <<awaiting, sent>>

\* A router whose tasks have no done callback: the set only grows.
discard_never(m) == running_tasks

\* The done callback of a finished task: running_tasks.discard(task).
discard(m) == running_tasks \ {m}

\* A Routable that sends only commands through the selection policy.
Routable_commands_only(message) == message.type = "command"

\* A Routable that lets events through to the selection policy.
Routable_with_event(message) ==
    message.type = "command" \/ message.type = "query" \/ message.type = "event"

\* Line 101: the kinds routed through the selection policy.
Routable(message) == message.type = "command" \/ message.type = "query"

\* A TargetAgent that honours the target of commands and queries only.
TargetAgent_routable_only(message) ==
    IF Routable(message) /\ Truthy(message.target) /\ message.target \in DOMAIN agents
      THEN agents[message.target] ELSE None

\* Line 92-93: the agent a set target names, None when the target is unset,
\* empty or not a key of self.agents.
TargetAgent(message) ==
    IF Truthy(message.target) /\ message.target \in DOMAIN agents
      THEN agents[message.target] ELSE None

\* A SelectedAgent that falls back to some registered agent when the policy's
\* id is not registered.
SelectedAgent_fallback(message) ==
    LET agent_id_ == _determine_agent_for_message(message) IN
    IF Truthy(agent_id_) /\ agent_id_ \in DOMAIN agents
      THEN agents[agent_id_]
      ELSE IF DOMAIN agents # {}
             THEN agents[CHOOSE i \in DOMAIN agents : TRUE] ELSE None

\* A SelectedAgent that consults the policy for envelopes without target only.
SelectedAgent_untargeted_only(message) ==
    LET agent_id_ == _determine_agent_for_message(message) IN
    IF message.target = None /\ Truthy(agent_id_) /\ agent_id_ \in DOMAIN agents
      THEN agents[agent_id_] ELSE None

\* Lines 104-106: the agent registered under the id the policy returns, None
\* when the policy returns nothing or an id that is not a key of self.agents.
SelectedAgent(message) ==
    LET agent_id_ == _determine_agent_for_message(message) IN
    IF Truthy(agent_id_) /\ agent_id_ \in DOMAIN agents
      THEN agents[agent_id_] ELSE None

\* handle_message up to its first await (or its return): the routing decision.
handle_message(m, message) ==
    /\ pc[m] = "new"
    /\ \A k \in 1..(m - 1) : pc[k] # "new"
    /\ message.id = m
    /\ env' = [env EXCEPT ![m] = message]
    /\ IF TargetAgent(message) # None
         THEN /\ create_task(m, TargetAgent(message))
              /\ UNCHANGED consulted
         ELSE IF Routable(message)
           THEN /\ consulted' = [consulted EXCEPT ![m] = TRUE]
                /\ IF SelectedAgent(message) # None
                     THEN create_task(m, SelectedAgent(message))
                     ELSE /\ _handle_error(m, message, "AGENT_DETERMINATION_ERROR",
                                           "h_send", "h_done")
                          /\ ret' = IF message.source \in DOMAIN adapters
                                      THEN ret ELSE [ret EXCEPT ![m] = NoMessage]
                          /\ UNCHANGED <<task_agent, running_tasks>>
           ELSE /\ _handle_error(m, message, "UNSUPPORTED_MESSAGE_TYPE",
                                 "h_send", "h_done")
                /\ ret' = IF message.source \in DOMAIN adapters
                            THEN ret ELSE [ret EXCEPT ![m] = NoMessage]
                /\ UNCHANGED <<task_agent, running_tasks, consulted>>
    /\ UNCHANGED <<agents, adapters, message_handler, response, superseded, agent_vars, life_vars, state_vars, adapter_vars>>

\* The adapter's send_message of a determination / unsupported-type error, or
\* of the PROCESSING_ERROR, returns: handle_message returns None.
router_error_sent(m) ==
    /\ pc[m] \in {"h_send", "h_exc"}
    /\ pc' = [pc EXCEPT ![m] = "h_done"]
    /\ ret' = [ret EXCEPT ![m] = NoMessage]
    /\ awaiting' = [awaiting EXCEPT ![m] = None]
    /\ UNCHANGED <<agents, adapters, message_handler, running_tasks, env, task_agent,
                   response, sent, built, consulted, superseded, agent_vars, life_vars, state_vars, adapter_vars>>

\* A handle_message without its except clause: the exception of the adapter's
\* send_message leaves handle_message.
router_error_send_raises_uncaught(m) ==
    /\ pc[m] = "h_send"
    /\ SendCanRaise(awaiting[m])
    /\ pc' = [pc EXCEPT ![m] = "h_raised"]
    /\ ret' = [ret EXCEPT ![m] = Raised]
    /\ awaiting' = [awaiting EXCEPT ![m] = None]
    /\ UNCHANGED <<agents, adapters, message_handler, running_tasks, env, task_agent,
                   response, sent, built, consulted, superseded, agent_vars, life_vars, state_vars, adapter_vars>>

\* That send_message raises: handle_message's except clause calls
\* _handle_error(message, "PROCESSING_ERROR", ...).
router_error_send_raises(m) ==
    /\ pc[m] = "h_send"
    /\ SendCanRaise(awaiting[m])
    /\ _handle_error(m, env[m], "PROCESSING_ERROR", "h_exc", "h_done")
    /\ ret' = IF env[m].source \in DOMAIN adapters
                THEN ret ELSE [ret EXCEPT ![m] = NoMessage]
    /\ UNCHANGED <<agents, adapters, message_handler, running_tasks, env, task_agent,
                   response, consulted, superseded, agent_vars, life_vars, state_vars, adapter_vars>>

\* send_message raises inside the except clause: nothing catches it, the
\* exception leaves handle_message.
processing_error_send_raises(m) ==
    /\ pc[m] = "h_exc"
    /\ SendCanRaise(awaiting[m])
    /\ pc' = [pc EXCEPT ![m] = "h_raised"]
    /\ ret' = [ret EXCEPT ![m] = Raised]
    /\ awaiting' = [awaiting EXCEPT ![m] = None]
    /\ UNCHANGED <<agents, adapters, message_handler, running_tasks, env, task_agent,
                   response, sent, built, consulted, superseded, agent_vars, life_vars, state_vars, adapter_vars>>

\* A _process_with_agent that drops the agent's response.
agent_returns_unsent(m, success) ==
    /\ pc[m] = "agent"
    /\ response' = [response EXCEPT ![m] = ResponseMessage(task_agent[m], env[m], success)]
    /\ pc' = [pc EXCEPT ![m] = "t_done"]
    /\ running_tasks' = discard(m)
    /\ UNCHANGED <<agents, adapters, message_handler, env, task_agent, awaiting, sent,
                   built, ret, consulted, superseded, agent_vars, life_vars, state_vars, adapter_vars>>

\* _process_with_agent: agent.process_message returned; if the source is a
\* registered adapter the task calls its send_message, otherwise it ends.
agent_returns(m, success) ==
    /\ pc[m] = "agent"
    /\ LET r == ResponseMessage(task_agent[m], env[m], success) IN
       /\ response' = [response EXCEPT ![m] = r]
       /\ IF env[m].source \in DOMAIN adapters
            THEN /\ awaiting' = [awaiting EXCEPT ![m] = adapters[env[m].source]]
                 /\ sent' = [sent EXCEPT ![m] =
                               Append(@, [adapter |-> adapters[env[m].source], msg |-> r])]
                 /\ pc' = [pc EXCEPT ![m] = "t_send"]
                 /\ UNCHANGED running_tasks
            ELSE /\ pc' = [pc EXCEPT ![m] = "t_done"]
                 /\ running_tasks' = discard(m)
                 /\ UNCHANGED <<awaiting, sent>>
    /\ UNCHANGED <<agents, adapters, message_handler, env, task_agent, built, ret,
                   consulted, superseded, agent_vars, life_vars, state_vars, adapter_vars>>

\* _process_with_agent: agent.process_message raised; the except clause calls
\* _handle_error(message, "AGENT_PROCESSING_ERROR", ...).
agent_raises(m) ==
    /\ pc[m] = "agent"
    /\ AgentCanRaise(task_agent[m])
    /\ _handle_error(m, env[m], "AGENT_PROCESSING_ERROR", "t_err", "t_done")
    /\ running_tasks' = IF env[m].source \in DOMAIN adapters
                          THEN running_tasks ELSE discard(m)
    /\ UNCHANGED <<agents, adapters, message_handler, env, task_agent, response, ret,
                   consulted, superseded, agent_vars, life_vars, state_vars, adapter_vars>>

\* adapter.send_message(response) returned: the task ends.
reply_sent(m) ==
    /\ pc[m] = "t_send"
    /\ pc' = [pc EXCEPT ![m] = "t_done"]
    /\ running_tasks' = discard(m)
    /\ awaiting' = [awaiting EXCEPT ![m] = None]
    /\ UNCHANGED <<agents, adapters, message_handler, env, task_agent, response, sent,
                   built, ret, consulted, superseded, agent_vars, life_vars, state_vars, adapter_vars>>

\* adapter.send_message(response) raised: it is inside the same try, so the
\* except clause calls _handle_error(message, "AGENT_PROCESSING_ERROR", ...).
reply_send_raises(m) ==
    /\ pc[m] = "t_send"
    /\ SendCanRaise(awaiting[m])
    /\ _handle_error(m, env[m], "AGENT_PROCESSING_ERROR", "t_err", "t_done")
    /\ running_tasks' = IF env[m].source \in DOMAIN adapters
                          THEN running_tasks ELSE discard(m)
    /\ UNCHANGED <<agents, adapters, message_handler, env, task_agent, response, ret,
                   consulted, superseded, agent_vars, life_vars, state_vars, adapter_vars>>

\* The send_message of the task's ErrorMessage returned: the task ends.
task_error_sent(m) ==
    /\ pc[m] = "t_err"
    /\ pc' = [pc EXCEPT ![m] = "t_done"]
    /\ running_tasks' = discard(m)
    /\ awaiting' = [awaiting EXCEPT ![m] = None]
    /\ UNCHANGED <<agents, adapters, message_handler, env, task_agent, response, sent,
                   built, ret, consulted, superseded, agent_vars, life_vars, state_vars, adapter_vars>>

\* The send_message of the task's ErrorMessage raised: the exception leaves
\* _process_with_agent and the task ends with it.
task_error_send_raises(m) ==
    /\ pc[m] = "t_err"
    /\ SendCanRaise(awaiting[m])
    /\ pc' = [pc EXCEPT ![m] = "t_raised"]
    /\ running_tasks' = discard(m)
    /\ awaiting' = [awaiting EXCEPT ![m] = None]
    /\ UNCHANGED <<agents, adapters, message_handler, env, task_agent, response, sent,
                   built, ret, consulted, superseded, agent_vars, life_vars, state_vars, adapter_vars>>

(***************************************************************************)
(* MCPRouter.initialize and MCPRouter.shutdown.  asyncio.gather wraps the  *)
(* coroutine of every registered adapter in a task and is awaited: it      *)
(* returns when all of them have ended, and raises to the caller as soon   *)
(* as one of them has raised, leaving the others running.  A coroutine     *)
(* without an await ends in the first step of its task, before the caller  *)
(* can be resumed.                                                         *)
(***************************************************************************)
Range(f) == {f[x] : x \in DOMAIN f}

\* init_tasks = [adapter.initialize() for adapter in self.adapters.values()];
\* await asyncio.gather(*init_tasks): up to the await.
initialize ==
    /\ init_call = "idle"
    /\ init_call' = "running"
    /\ init_task' = [a \in AdapterObjs |->
                       IF a \in Range(adapters) THEN "running" ELSE init_task[a]]
    /\ UNCHANGED <<shutdown_call, shutdown_task, router_vars, agent_vars, adapter_vars, state_vars>>

\* The token the TelegramAdapter is configured with: none, or one.
TelegramTokens == {None, "token"}

\* adapter.initialize() ends / raises.  TelegramAdapter.initialize returns at
\* once without a token; with one it sets self.bot before its await and keeps
\* it whatever get_me does.
adapter_initialized(a) ==
    /\ init_task[a] = "running"
    /\ init_task' = [init_task EXCEPT ![a] = "done"]
    /\ IF a = "telegram_adapter"
         THEN \E token \in TelegramTokens : bot' = IF Truthy(token) THEN "Bot" ELSE bot
         ELSE UNCHANGED bot
    /\ UNCHANGED <<init_call, shutdown_call, shutdown_task, outbox, send_call,
                   external_input, router_vars, agent_vars, state_vars>>

adapter_initialize_raises(a) ==
    /\ init_task[a] = "running"
    /\ InitializeCanRaise(a)
    /\ init_task' = [init_task EXCEPT ![a] = "failed"]
    /\ UNCHANGED <<init_call, shutdown_call, shutdown_task, router_vars, agent_vars, adapter_vars, state_vars>>

\* gather has every result: MCPRouter.initialize returns.
initialize_returns ==
    /\ init_call = "running"
    /\ \A a \in AdapterObjs : init_task[a] \in {"none", "done"}
    /\ init_call' = "returned"
    /\ UNCHANGED <<init_task, shutdown_call, shutdown_task, router_vars, agent_vars, adapter_vars, state_vars>>

\* gather passes the first exception on: MCPRouter.initialize raises.
initialize_raises ==
    /\ init_call = "running"
    /\ \E a \in AdapterObjs : init_task[a] = "failed"
    /\ \A a \in AdapterObjs : init_task[a] = "running" => InitializeSuspends(a)
    /\ init_call' = "raised"
    /\ UNCHANGED <<init_task, shutdown_call, shutdown_task, router_vars, agent_vars, adapter_vars, state_vars>>

\* A shutdown that also cancels the dispatch tasks in flight.
shutdown_cancelling ==
    /\ shutdown_call = "idle"
    /\ shutdown_call' = "running"
    /\ shutdown_task' = [a \in AdapterObjs |->
                           IF a \in Range(adapters) THEN "running" ELSE shutdown_task[a]]
    /\ running_tasks' = {}
    /\ UNCHANGED <<init_call, init_task, agents, adapters, message_handler, env, pc,
                   task_agent, awaiting, response, sent, built, ret, consulted,
                   superseded, agent_vars, adapter_vars, state_vars>>

\* shutdown_tasks = [adapter.shutdown() for adapter in self.adapters.values()];
\* await asyncio.gather(*shutdown_tasks): up to the await.
shutdown ==
    /\ shutdown_call = "idle"
    /\ shutdown_call' = "running"
    /\ shutdown_task' = [a \in AdapterObjs |->
                           IF a \in Range(adapters) THEN "running" ELSE shutdown_task[a]]
    /\ UNCHANGED <<init_call, init_task, router_vars, agent_vars, adapter_vars, state_vars>>

\* adapter.shutdown() ends / raises.
adapter_shut_down(a) ==
    /\ shutdown_task[a] = "running"
    /\ shutdown_task' = [shutdown_task EXCEPT ![a] = "done"]
    /\ UNCHANGED <<init_call, init_task, shutdown_call, router_vars, agent_vars, adapter_vars, state_vars>>

adapter_shutdown_raises(a) ==
    /\ shutdown_task[a] = "running"
    /\ ShutdownCanRaise(a)
    /\ shutdown_task' = [shutdown_task EXCEPT ![a] = "failed"]
    /\ UNCHANGED <<init_call, init_task, shutdown_call, router_vars, agent_vars, adapter_vars, state_vars>>

\* gather has every result: MCPRouter.shutdown returns.
shutdown_returns ==
    /\ shutdown_call = "running"
    /\ \A a \in AdapterObjs : shutdown_task[a] \in {"none", "done"}
    /\ shutdown_call' = "returned"
    /\ UNCHANGED <<init_call, init_task, shutdown_task, router_vars, agent_vars, adapter_vars, state_vars>>

\* gather passes the first exception on: MCPRouter.shutdown raises.
shutdown_raises ==
    /\ shutdown_call = "running"
    /\ \E a \in AdapterObjs : shutdown_task[a] = "failed"
    /\ \A a \in AdapterObjs : shutdown_task[a] = "running" => ShutdownSuspends(a)
    /\ shutdown_call' = "raised"
    /\ UNCHANGED <<init_call, init_task, shutdown_task, router_vars, agent_vars, adapter_vars, state_vars>>

(***************************************************************************)
(* EstudosAgent (src/mcp/agents/estudos_agent.py).  A call of              *)
(* process_message runs without interruption up to the await of the model  *)
(* provider, and again from the provider's answer to the return.  Texts    *)
(* are written without accents; a text with a parameter is the pair of its *)
(* fixed part and the parameter.                                           *)
(***************************************************************************)
capabilities == {"start", "resumo", "quiz", "responder", "query"}

\* StateManager.save_state(user_id, {key: value}): the stored state keeps its
\* other keys and last_update becomes the time of the save.
save_state(user_id, key, value) ==
    user_state' = [user_state EXCEPT
                     ![user_id] = [@ EXCEPT ![key] = value, !.last_update = now]]

\* A ResponseMessage with a fresh id of its own instead of the request's.
_create_error_response_fresh_id(original_message, error_text) ==
    [type |-> "response", source |-> agent_id("estudos_agent"),
     target |-> original_message.source, user_id |-> original_message.user_id,
     context |-> original_message.context,
     response_to |-> 0, success |-> FALSE, data |-> [error |-> error_text]]

\* A failure handed back as an envelope of kind Error.
_create_error_response_kind_error(original_message, error_text) ==
    [type |-> "error", source |-> agent_id("estudos_agent"),
     target |-> original_message.source, user_id |-> original_message.user_id,
     context |-> original_message.context,
     response_to |-> original_message.id, success |-> FALSE,
     data |-> [error |-> error_text]]

_create_success_response(original_message, text) ==
    [type |-> "response", source |-> agent_id("estudos_agent"),
     target |-> original_message.source, user_id |-> original_message.user_id,
     context |-> original_message.context,
     response_to |-> original_message.id, success |-> TRUE, data |-> [text |-> text]]

_create_error_response(original_message, error_text) ==
    [type |-> "response", source |-> agent_id("estudos_agent"),
     target |-> original_message.source, user_id |-> original_message.user_id,
     context |-> original_message.context,
     response_to |-> original_message.id, success |-> FALSE,
     data |-> [error |-> error_text]]

\* A handler's ResponseMessage built without the request's context.
HandlerResponse_no_context(message, user_id, data) ==
    [type |-> "response", source |-> agent_id("estudos_agent"),
     target |-> message.source, user_id |-> user_id,
     context |-> EmptyContext,
     response_to |-> message.id, success |-> TRUE, data |-> data]

\* The ResponseMessage the handlers of resumo, quiz, responder and query
\* build themselves: user_id is the handler's local variable.
HandlerResponse(message, user_id, data) ==
    [type |-> "response", source |-> agent_id("estudos_agent"),
     target |-> message.source, user_id |-> user_id,
     context |-> message.context,
     response_to |-> message.id, success |-> TRUE, data |-> data]

\* The call returns r / suspends at an await of the provider.
Return(c, r) ==
    /\ call_result' = [call_result EXCEPT ![c] = r]
    /\ call_pc' = [call_pc EXCEPT ![c] = "done"]
    /\ UNCHANGED call_exception

Await(c, where) ==
    /\ call_pc' = [call_pc EXCEPT ![c] = where]
    /\ UNCHANGED <<call_result, call_exception>>

\* Exception e leaves the call: nothing on its stack catches it.
Raise(c, e) ==
    /\ call_pc' = [call_pc EXCEPT ![c] = "raised"]
    /\ call_exception' = [call_exception EXCEPT ![c] = e]
    /\ UNCHANGED call_result

\* The call enters a capability handler.
Invoke(c, handler) == call_handler' = [call_handler EXCEPT ![c] = handler]

\* An except clause that answers with its fixed text alone.
ReturnCaught_text_only(c, message, text, e) ==
    /\ call_result' = [call_result EXCEPT ![c] = _create_error_response(message, <<text, "">>)]
    /\ call_pc' = [call_pc EXCEPT ![c] = "done"]
    /\ call_exception' = [call_exception EXCEPT ![c] = e]

\* "except Exception as e" of process_message and of the handlers: exception e
\* was raised; the call returns _create_error_response(message, f"{text}: {e}").
ReturnCaught(c, message, text, e) ==
    /\ call_result' = [call_result EXCEPT ![c] = _create_error_response(message, <<text, e>>)]
    /\ call_pc' = [call_pc EXCEPT ![c] = "done"]
    /\ call_exception' = [call_exception EXCEPT ![c] = e]

ProviderUnavailable == <<"Provedor de modelo nao esta disponivel no momento.", "">>

_handle_start(c, message) ==
    LET user_id == message.user_id IN
    /\ IF Truthy(user_id)
         THEN save_state(user_id, "ultimo_comando", "start")
         ELSE UNCHANGED user_state
    /\ Return(c, _create_success_response(message, "Ola! Eu sou seu assistente de estudos."))
    /\ UNCHANGED call_topico

\* A _handle_resumo that records the topic before looking at it.
_handle_resumo_records_first(c, message) ==
    LET user_id == message.user_id
        topico == message.parameters.topico IN
    /\ IF Truthy(user_id)
         THEN save_state(user_id, "ultimo_topico", topico)
         ELSE UNCHANGED user_state
    /\ IF ~Truthy(topico)
         THEN /\ Return(c, _create_error_response(message,
                             <<"Por favor, forneca um topico. Exemplo: /resumo HTTP", "">>))
              /\ UNCHANGED call_topico
         ELSE /\ call_topico' = [call_topico EXCEPT ![c] = topico]
              /\ IF model_provider = None
                   THEN Return(c, _create_error_response(message, ProviderUnavailable))
                   ELSE Await(c, "resumo_await")

_handle_resumo(c, message) ==
    LET user_id == message.user_id
        topico == message.parameters.topico IN
    IF ~Truthy(topico)
      THEN /\ Return(c, _create_error_response(message,
                          <<"Por favor, forneca um topico. Exemplo: /resumo HTTP", "">>))
           /\ UNCHANGED <<user_state, call_topico>>
      ELSE /\ IF Truthy(user_id)
                THEN save_state(user_id, "ultimo_topico", topico)
                ELSE UNCHANGED user_state
           /\ call_topico' = [call_topico EXCEPT ![c] = topico]
           /\ IF model_provider = None
                THEN Return(c, _create_error_response(message, ProviderUnavailable))
                ELSE Await(c, "resumo_await")

\* A _handle_quiz that forgets the last topic: an empty topic is "geral".
_handle_quiz_geral(c, message) ==
    LET user_id == message.user_id
        given == message.parameters.topico
        topico == IF ~Truthy(given) /\ Truthy(user_id)
                    THEN "geral"
                    ELSE given IN
    /\ IF Truthy(user_id)
         THEN save_state(user_id, "ultimo_topico", topico)
         ELSE UNCHANGED user_state
    /\ call_topico' = [call_topico EXCEPT ![c] = topico]
    /\ IF model_provider = None
         THEN Return(c, _create_error_response(message, ProviderUnavailable))
         ELSE Await(c, "quiz_await")

_handle_quiz(c, message) ==
    LET user_id == message.user_id
        given == message.parameters.topico
        topico == IF ~Truthy(given) /\ Truthy(user_id)
                    THEN IF user_state[user_id].ultimo_topico = Missing
                           THEN "geral" ELSE user_state[user_id].ultimo_topico
                    ELSE given IN
    /\ IF Truthy(user_id)
         THEN save_state(user_id, "ultimo_topico", topico)
         ELSE UNCHANGED user_state
    /\ call_topico' = [call_topico EXCEPT ![c] = topico]
    /\ IF model_provider = None
         THEN Return(c, _create_error_response(message, ProviderUnavailable))
         ELSE Await(c, "quiz_await")

\* str.upper() of a text, character by character: the small letters become
\* capitals, and "sz" (the sharp s, U+00DF) becomes the two characters "SS".
upper_letra(letra) ==
    CASE letra = "a" -> <<"A">> [] letra = "b" -> <<"B">> [] letra = "c" -> <<"C">>
      [] letra = "d" -> <<"D">> [] letra = "e" -> <<"E">>
      [] letra = "sz" -> <<"S", "S">>
      [] OTHER -> <<letra>>

RECURSIVE upper(_)
upper(texto) ==
    IF texto = <<>> THEN <<>> ELSE upper_letra(Head(texto)) \o upper(Tail(texto))

\* The characters of chr(65) .. chr(90).
Letters == <<"A", "B", "C", "D", "E", "F", "G", "H", "I", "J", "K", "L", "M",
             "N", "O", "P", "Q", "R", "S", "T", "U", "V", "W", "X", "Y", "Z">>

_avaliar_quiz(respostas_usuario, respostas_certas) ==
    LET n == IF Len(respostas_usuario) < Len(respostas_certas)
               THEN Len(respostas_usuario) ELSE Len(respostas_certas)
        chr65(i) == IF 0 <= i /\ i <= 25 THEN Letters[i + 1] ELSE "?"
        acertos == Cardinality({i \in 1..n : respostas_usuario[i] = respostas_certas[i]})
        total == Len(respostas_certas) IN
    [pontuacao |-> acertos,
     total |-> total,
     porcentagem |-> IF total > 0 THEN (acertos * 100) \div total ELSE 0,
     detalhes |-> [i \in 1..n |->
                     [pergunta |-> i,
                      resposta_usuario |-> chr65(respostas_usuario[i]),
                      resposta_correta |-> chr65(respostas_certas[i]),
                      acertou |-> respostas_usuario[i] = respostas_certas[i]]]]

\* A _handle_responder that leaves the quiz active after grading.
_handle_responder_keeps_quiz(c, message) ==
    LET user_id == message.user_id
        respostas_texto == message.parameters.respostas IN
    /\ UNCHANGED call_topico
    /\ IF respostas_texto = <<>>
         THEN /\ Return(c, _create_error_response(message,
                             <<"Por favor, forneca suas respostas. Exemplo: /responder ABCDE", "">>))
              /\ UNCHANGED user_state
         ELSE IF ~Truthy(user_id)
           THEN /\ Return(c, _create_error_response(message,
                               <<"Nao foi possivel identificar o usuario.", "">>))
                /\ UNCHANGED user_state
           ELSE LET quiz_atual == user_state[user_id].quiz_atual.items IN
                IF quiz_atual = <<>>
                  THEN /\ Return(c, _create_error_response(message,
                                      <<"Nao ha um quiz ativo. Gere um quiz primeiro com /quiz <topico>.", "">>))
                       /\ UNCHANGED user_state
                  ELSE LET maiusculas == upper(respostas_texto)
                           indices == [i \in 1..Len(maiusculas) |->
                                         LET letra == maiusculas[i] IN
                                         CASE letra = "A" -> 0 [] letra = "B" -> 1
                                           [] letra = "C" -> 2 [] letra = "D" -> 3
                                           [] OTHER -> -1]
                           longest == IF Len(indices) < Len(quiz_atual)
                                        THEN Len(quiz_atual) ELSE Len(indices)
                           padded == [i \in 1..longest |->
                                        IF i <= Len(indices) THEN indices[i] ELSE -1]
                           respostas_usuario == SubSeq(padded, 1, Len(quiz_atual))
                           respostas_certas == quiz_atual
                           resultado == _avaliar_quiz(respostas_usuario, respostas_certas) IN
                       /\ UNCHANGED user_state
                       /\ Return(c, HandlerResponse(message, user_id,
                                                    [avaliacao |-> resultado]))

_handle_responder(c, message) ==
    LET user_id == message.user_id
        respostas_texto == message.parameters.respostas IN
    /\ UNCHANGED call_topico
    /\ IF respostas_texto = <<>>
         THEN /\ Return(c, _create_error_response(message,
                             <<"Por favor, forneca suas respostas. Exemplo: /responder ABCDE", "">>))
              /\ UNCHANGED user_state
         ELSE IF ~Truthy(user_id)
           THEN /\ Return(c, _create_error_response(message,
                               <<"Nao foi possivel identificar o usuario.", "">>))
                /\ UNCHANGED user_state
           ELSE LET quiz_atual == user_state[user_id].quiz_atual.items IN
                IF quiz_atual = <<>>
                  THEN /\ Return(c, _create_error_response(message,
                                      <<"Nao ha um quiz ativo. Gere um quiz primeiro com /quiz <topico>.", "">>))
                       /\ UNCHANGED user_state
                  ELSE LET maiusculas == upper(respostas_texto)
                           indices == [i \in 1..Len(maiusculas) |->
                                         LET letra == maiusculas[i] IN
                                         CASE letra = "A" -> 0 [] letra = "B" -> 1
                                           [] letra = "C" -> 2 [] letra = "D" -> 3
                                           [] OTHER -> -1]
                           longest == IF Len(indices) < Len(quiz_atual)
                                        THEN Len(quiz_atual) ELSE Len(indices)
                           padded == [i \in 1..longest |->
                                        IF i <= Len(indices) THEN indices[i] ELSE -1]
                           respostas_usuario == SubSeq(padded, 1, Len(quiz_atual))
                           respostas_certas == quiz_atual
                           resultado == _avaliar_quiz(respostas_usuario, respostas_certas) IN
                       /\ save_state(user_id, "quiz_atual", NullQuiz)
                       /\ Return(c, HandlerResponse(message, user_id,
                                                    [avaliacao |-> resultado]))

\* _handle_query: a CommandMessage has no attribute query, so "query =
\* message.query" raises AttributeError.  in_try: the handler was called from
\* the try of process_message, whose except clause catches it; otherwise it
\* leaves the call.
_handle_query(c, message, in_try) ==
    /\ UNCHANGED <<user_state, call_topico>>
    /\ IF message.cls # "QueryMessage"
         THEN IF in_try
                THEN ReturnCaught(c, message, "Erro ao processar mensagem", "AttributeError")
                ELSE Raise(c, "AttributeError")
         ELSE IF model_provider = None
           THEN Return(c, _create_error_response(message, ProviderUnavailable))
           ELSE Await(c, "query_await")

\* The parameters of a message without any: a key the parameters do not
\* hold reads as the empty text.
NoParameters == [topico |-> "", respostas |-> <<>>]

\* A capability map that binds "quiz" to the handler of "resumo".
capability_quiz_as_resumo(c, command, message, in_try) ==
    CASE command = "start" -> Invoke(c, "_handle_start") /\ _handle_start(c, message)
      [] command \in {"resumo", "quiz"} ->
           Invoke(c, "_handle_resumo") /\ _handle_resumo(c, message)
      [] command = "responder" ->
           Invoke(c, "_handle_responder") /\ _handle_responder(c, message)
      [] command = "query" ->
           Invoke(c, "_handle_query") /\ _handle_query(c, message, in_try)

\* self.capabilities[command](message): the handler _register_capabilities
\* bound to the command.
capability(c, command, message, in_try) ==
    CASE command = "start" -> Invoke(c, "_handle_start") /\ _handle_start(c, message)
      [] command = "resumo" -> Invoke(c, "_handle_resumo") /\ _handle_resumo(c, message)
      [] command = "quiz" -> Invoke(c, "_handle_quiz") /\ _handle_quiz(c, message)
      [] command = "responder" ->
           Invoke(c, "_handle_responder") /\ _handle_responder(c, message)
      [] command = "query" ->
           Invoke(c, "_handle_query") /\ _handle_query(c, message, in_try)

process_message(c, message) ==
    /\ call_pc[c] = "idle"
    /\ call_msg' = [call_msg EXCEPT ![c] = message]
    /\ IF message.type = "command"
         THEN IF message.cls = "CommandMessage"
           THEN IF message.command \in capabilities
             THEN capability(c, message.command, message, TRUE)
             ELSE /\ Return(c, _create_error_response(message,
                                 <<"Comando nao suportado", message.command>>))
                  /\ UNCHANGED <<user_state, call_topico, call_handler>>
           ELSE /\ Return(c, _create_error_response(message,
                               <<"Mensagem de comando invalida", "">>))
                /\ UNCHANGED <<user_state, call_topico, call_handler>>
         ELSE IF message.type = "query"
           THEN IF message.cls = "QueryMessage"
             THEN Invoke(c, "_handle_query") /\ _handle_query(c, message, TRUE)
             ELSE /\ Return(c, _create_error_response(message,
                                 <<"Mensagem de consulta invalida", "">>))
                  /\ UNCHANGED <<user_state, call_topico, call_handler>>
           ELSE /\ Return(c, _create_error_response(message,
                               <<"Tipo de mensagem nao suportado", message.type>>))
                /\ UNCHANGED <<user_state, call_topico, call_handler>>
    /\ UNCHANGED <<model_provider, router_vars, life_vars, state_vars, adapter_vars>>

\* The envelopes handle_command and handle_query make up; id is the uuid4 drawn.
CommandMessage(id, source, user_id, context, command, parameters) ==
    [id |-> id, type |-> "command", cls |-> "CommandMessage", source |-> source,
     user_id |-> user_id, context |-> context,
     command |-> command, parameters |-> parameters, query |-> None]

QueryMessage(id, source, user_id, context, query) ==
    [id |-> id, type |-> "query", cls |-> "QueryMessage", source |-> source,
     user_id |-> user_id, context |-> context,
     command |-> None, parameters |-> NoParameters, query |-> query]

\* handle_command: the capability handler is called outside any try.
handle_command(c, id, command, params, context) ==
    LET msg == CommandMessage(id, get(context.source, "unknown"),
                              get(context.user_id, None), context, command, params) IN
    /\ call_pc[c] = "idle"
    /\ call_msg' = [call_msg EXCEPT ![c] = msg]
    /\ IF command \in capabilities
         THEN capability(c, command, msg, FALSE)
         ELSE /\ Return(c, _create_error_response(msg, <<"Comando nao suportado", command>>))
              /\ UNCHANGED <<user_state, call_topico, call_handler>>
    /\ UNCHANGED <<model_provider, router_vars, life_vars, state_vars, adapter_vars>>

handle_query(c, id, query, context) ==
    LET msg == QueryMessage(id, get(context.source, "unknown"),
                            get(context.user_id, None), context, query) IN
    /\ call_pc[c] = "idle"
    /\ call_msg' = [call_msg EXCEPT ![c] = msg]
    /\ Invoke(c, "_handle_query")
    /\ _handle_query(c, msg, FALSE)
    /\ UNCHANGED <<model_provider, router_vars, life_vars, state_vars, adapter_vars>>

\* What the awaited provider call can do: give a result with success True,
\* give a result with success False, or raise.
ProviderOutcomes == {"ok", "fail", "raise"}

\* The quizzes GeminiProvider.generate_quiz can give with success True: each
\* question is its resposta_correta, which generate_quiz keeps within 0..3.
Quizzes == {<<>>, <<0>>, <<1, 3>>}

generate_resume(topic) == [success |-> TRUE, resumo |-> <<"resumo", topic>>, topic |-> topic]

generate_quiz(topic, quiz) == [success |-> TRUE, quiz |-> quiz, topic |-> topic]

\* _handle_resumo from the answer of generate_resume to the return.
resumo_returns_as_text(c, outcome) ==
    /\ call_pc[c] = "resumo_await"
    /\ LET message == call_msg[c]
           topico == call_topico[c] IN
       CASE outcome = "ok" ->
              Return(c, _create_success_response(message, generate_resume(topico).resumo))
         [] outcome = "fail" ->
              Return(c, _create_error_response(message,
                          <<"Nao foi possivel gerar um resumo satisfatorio para", topico>>))
         [] outcome = "raise" ->
              ReturnCaught(c, message, "Erro ao gerar resumo", "Exception")
    /\ UNCHANGED <<model_provider, user_state, call_msg, call_topico, call_handler,
                   router_vars, life_vars, state_vars, adapter_vars>>

resumo_returns(c, outcome) ==
    /\ call_pc[c] = "resumo_await"
    /\ LET message == call_msg[c]
           user_id == message.user_id
           topico == call_topico[c] IN
       CASE outcome = "ok" ->
              Return(c, HandlerResponse(message, user_id, generate_resume(topico)))
         [] outcome = "fail" ->
              Return(c, _create_error_response(message,
                          <<"Nao foi possivel gerar um resumo satisfatorio para", topico>>))
         [] outcome = "raise" ->
              ReturnCaught(c, message, "Erro ao gerar resumo", "Exception")
    /\ UNCHANGED <<model_provider, user_state, call_msg, call_topico, call_handler,
                   router_vars, life_vars, state_vars, adapter_vars>>

\* A _handle_quiz that stores its questions only when the user has no
\* active quiz.
quiz_returns_first_wins(c, outcome, perguntas) ==
    /\ call_pc[c] = "quiz_await"
    /\ LET message == call_msg[c]
           user_id == message.user_id
           topico == call_topico[c] IN
       CASE outcome = "ok" /\ perguntas = <<>> ->
              /\ Return(c, _create_error_response(message,
                             <<"Nao foi possivel gerar perguntas para o quiz.", "">>))
              /\ UNCHANGED user_state
         [] outcome = "ok" /\ perguntas # <<>> ->
              /\ IF Truthy(user_id) /\ user_state[user_id].quiz_atual.items = <<>>
                   THEN save_state(user_id, "quiz_atual", QuizList(perguntas))
                   ELSE UNCHANGED user_state
              /\ Return(c, HandlerResponse(message, user_id, generate_quiz(topico, perguntas)))
         [] outcome = "fail" ->
              /\ Return(c, _create_error_response(message, <<"Erro ao gerar quiz sobre", topico>>))
              /\ UNCHANGED user_state
         [] outcome = "raise" ->
              /\ ReturnCaught(c, message, "Erro ao gerar quiz", "Exception")
              /\ UNCHANGED user_state
    /\ UNCHANGED <<model_provider, call_msg, call_topico, call_handler,
                   router_vars, life_vars, state_vars, adapter_vars>>

\* _handle_quiz from the answer of generate_quiz to the return.
quiz_returns(c, outcome, perguntas) ==
    /\ call_pc[c] = "quiz_await"
    /\ LET message == call_msg[c]
           user_id == message.user_id
           topico == call_topico[c] IN
       CASE outcome = "ok" /\ perguntas = <<>> ->
              /\ Return(c, _create_error_response(message,
                             <<"Nao foi possivel gerar perguntas para o quiz.", "">>))
              /\ UNCHANGED user_state
         [] outcome = "ok" /\ perguntas # <<>> ->
              /\ IF Truthy(user_id)
                   THEN save_state(user_id, "quiz_atual", QuizList(perguntas))
                   ELSE UNCHANGED user_state
              /\ Return(c, HandlerResponse(message, user_id, generate_quiz(topico, perguntas)))
         [] outcome = "fail" ->
              /\ Return(c, _create_error_response(message, <<"Erro ao gerar quiz sobre", topico>>))
              /\ UNCHANGED user_state
         [] outcome = "raise" ->
              /\ ReturnCaught(c, message, "Erro ao gerar quiz", "Exception")
              /\ UNCHANGED user_state
    /\ UNCHANGED <<model_provider, call_msg, call_topico, call_handler,
                   router_vars, life_vars, state_vars, adapter_vars>>

\* _handle_query from the answer of generate_resume to the return.
query_returns(c, outcome) ==
    /\ call_pc[c] = "query_await"
    /\ LET message == call_msg[c]
           query == message.query IN
       CASE outcome = "ok" ->
              Return(c, HandlerResponse(message, message.user_id, generate_resume(query)))
         [] outcome = "fail" ->
              Return(c, _create_error_response(message,
                          <<"Nao foi possivel gerar um resumo satisfatorio para", query>>))
         [] outcome = "raise" ->
              ReturnCaught(c, message, "Nao consegui processar sua pergunta", "Exception")
    /\ UNCHANGED <<model_provider, user_state, call_msg, call_topico, call_handler,
                   router_vars, life_vars, state_vars, adapter_vars>>

\* The caller has taken the response (the exception): the call is over.
call_returned(c) ==
    /\ call_pc[c] \in {"done", "raised"}
    /\ call_pc' = [call_pc EXCEPT ![c] = "idle"]
    /\ call_msg' = [call_msg EXCEPT ![c] = NoCall]
    /\ call_topico' = [call_topico EXCEPT ![c] = ""]
    /\ call_result' = [call_result EXCEPT ![c] = NoMessage]
    /\ call_exception' = [call_exception EXCEPT ![c] = None]
    /\ call_handler' = [call_handler EXCEPT ![c] = None]
    /\ UNCHANGED <<model_provider, user_state, router_vars, life_vars, state_vars, adapter_vars>>


\* The messages given to EstudosAgent.process_message.  cls is the class of
\* the object (what isinstance sees); a key the parameters do not hold reads
\* as the empty text.
Topicos == {"", "HTTP", "TCP"}

Respostas == {<<>>, <<"A">>, <<"b", "D">>, <<"E", "d", "C">>}

CommandParameters(command) ==
    CASE command \in {"resumo", "quiz"} ->
           {[topico |-> t, respostas |-> <<>>] : t \in Topicos}
      [] command = "responder" ->
           {[topico |-> "", respostas |-> r] : r \in Respostas}
      [] OTHER -> {NoParameters}

AgentMessage(id, type, cls, source, user_id, command, parameters, query) ==
    [id |-> id, type |-> type, cls |-> cls, source |-> source, user_id |-> user_id,
     context |-> AdapterContext(source, user_id),
     command |-> command, parameters |-> parameters, query |-> query]

AgentMessages ==
    UNION {
      UNION {{AgentMessage(id, "command", "CommandMessage", source, user_id, command, p, None) :
                p \in CommandParameters(command)} :
             command \in capabilities \cup {"ajuda"}}
      \cup {AgentMessage(id, "query", "QueryMessage", source, user_id, None, NoParameters, "HTTP")}
      \cup {AgentMessage(id, type, "Message", source, user_id, None, NoParameters, None) :
              type \in MessageType} :
      id \in Slots, source \in Sources, user_id \in Users}

NextAgent ==
    \/ \E message \in AgentMessages : process_message(1, message)
    \/ \E outcome \in ProviderOutcomes : resumo_returns(1, outcome)
    \/ \E outcome \in ProviderOutcomes, perguntas \in Quizzes : quiz_returns(1, outcome, perguntas)
    \/ \E outcome \in ProviderOutcomes : query_returns(1, outcome)
    \/ call_returned(1)

SpecAgent == InitAgent /\ [][NextAgent]_vars

\* SpecEntry: the three entry points of the EstudosAgent, handle_command and
\* handle_query with the contexts a caller outside the router passes.
EntryCommands == capabilities \cup {"ajuda"}

EntryContexts ==
    { Context(Missing, user_id, source) :
        user_id \in {Missing, "u1"}, source \in {Missing, "telegram"} }

EntryQueries == {"HTTP"}

NextEntry ==
    \/ \E id \in Slots, command \in EntryCommands, context \in EntryContexts :
          \E params \in CommandParameters(command) :
             \/ handle_command(1, id, command, params, context)
             \/ process_message(1, CommandMessage(id, get(context.source, "unknown"),
                                                  get(context.user_id, None), context,
                                                  command, params))
    \/ \E id \in Slots, query \in EntryQueries, context \in EntryContexts :
          \/ handle_query(1, id, query, context)
          \/ process_message(1, QueryMessage(id, get(context.source, "unknown"),
                                             get(context.user_id, None), context, query))
    \/ \E outcome \in ProviderOutcomes : resumo_returns(1, outcome)
    \/ \E outcome \in ProviderOutcomes, perguntas \in Quizzes : quiz_returns(1, outcome, perguntas)
    \/ \E outcome \in ProviderOutcomes : query_returns(1, outcome)
    \/ call_returned(1)

SpecEntry == InitAgent /\ [][NextEntry]_vars

(***************************************************************************)
(* The adapters (src/mcp/adapters).  A text is the sequence of its tokens: *)
(* a leading "/", words, and the single spaces between them.               *)
(***************************************************************************)
RECURSIVE Join(_)
\* The text the tokens spell.
Join(tokens) == IF tokens = <<>> THEN "" ELSE Head(tokens) \o Join(Tail(tokens))

\* A test that takes no text for a command.
startswith_slash_never(text) == FALSE

\* text.startswith('/')
startswith_slash(text) == text # <<>> /\ Head(text) = "/"

\* text.split(' ', 1): the tokens before the first space, and those after it
\* (no second part when the text has no space).
split(text) ==
    LET spaces == {i \in DOMAIN text : text[i] = " "} IN
    IF spaces = {}
      THEN <<text>>
      ELSE LET first == CHOOSE i \in spaces : \A j \in spaces : i <= j IN
           <<SubSeq(text, 1, first - 1), SubSeq(text, first + 1, Len(text))>>

\* message.text of a message without text (a photo, a sticker ...): None.  A
\* text Telegram delivers is never empty.
NoText == <<>>

\* A Telegram update: whether it holds a message, the message's text, its
\* sender (None for a message without "from") and its chat.
Update(message, text, from_user, chat) ==
    [message |-> message, text |-> text, from_user |-> from_user, chat |-> chat]

\* What handle_external_input returns: an envelope with the fields of its
\* class.
AdapterMessage(cls, type, id, source, target, user_id, context, fields) ==
    [cls |-> cls, type |-> type, id |-> id, source |-> source, target |-> target,
     user_id |-> user_id, context |-> context] @@ fields

\* TelegramAdapter._create_error_message: a Message of type ERROR, not an
\* ErrorMessage; the text is its content.
_create_error_message(id, error_text) ==
    AdapterMessage("Message", "error", id, "telegram", None, None, EmptyContext,
                   [content |-> [error |-> error_text]])

\* The call of handle_external_input returns message / raises e.
InputReturns(adapter, raw, message) ==
    /\ external_input.pc = "idle"
    /\ external_input' = [adapter |-> adapter, raw |-> raw, pc |-> "returned",
                          result |-> message, exception |-> None]
    /\ UNCHANGED <<bot, outbox, send_call, router_vars, agent_vars, life_vars, state_vars>>

InputRaises(adapter, raw, e) ==
    /\ external_input.pc = "idle"
    /\ external_input' = [adapter |-> adapter, raw |-> raw, pc |-> "raised",
                          result |-> NoMessage, exception |-> e]
    /\ UNCHANGED <<bot, outbox, send_call, router_vars, agent_vars, life_vars, state_vars>>

\* TelegramAdapter.handle_external_input; id is the uuid4 drawn.
TelegramAdapter_handle_external_input(update, id) ==
    IF ~update.message
      THEN InputReturns("telegram_adapter", update,
                        _create_error_message(id, "Tipo de atualizacao nao suportado"))
      ELSE IF update.from_user = None
        THEN InputRaises("telegram_adapter", update, "AttributeError")
        ELSE LET text == update.text
                 usuario_id == update.from_user
                 context == Context(update.chat, usuario_id, Missing) IN
             IF text = NoText
               THEN InputRaises("telegram_adapter", update, "AttributeError")
               ELSE IF startswith_slash(text)
                 THEN LET parts == split(text)
                          command == Join(Tail(parts[1]))
                          params == IF Len(parts) > 1 THEN Join(parts[2]) ELSE ""
                          parameters ==
                            CASE command = "start" -> EmptyDict
                              [] command \in {"resumo", "quiz"} -> [topico |-> params]
                              [] command = "responder" -> [respostas |-> params]
                              [] OTHER -> [text |-> params]
                          target == IF command \in {"start", "resumo", "quiz", "responder"}
                                      THEN "estudos" ELSE None IN
                      InputReturns("telegram_adapter", update,
                                   AdapterMessage("CommandMessage", "command", id, "telegram",
                                                  target, usuario_id, context,
                                                  [command |-> command,
                                                   parameters |-> parameters]))
                 ELSE InputReturns("telegram_adapter", update,
                                   AdapterMessage("QueryMessage", "query", id, "telegram",
                                                  None, usuario_id, context,
                                                  [query |-> Join(text)]))

\* A webhook payload, a dict: Missing for a key it does not hold, None for a
\* JSON null.
Payload(source, user_id, command, acao, topico) ==
    [source |-> source, user_id |-> user_id, command |-> command, acao |-> acao,
     topico |-> topico]

\* A str field of a pydantic model does not take None.
ValidStr(v) == v # None

\* WebhookAdapter._handle_n8n_input
_handle_n8n_input(data, id) ==
    LET acao == get(data.acao, None)
        user_id == get(data.user_id, None) IN
    IF acao \in {"resumo", "quiz"}
      THEN InputReturns("webhook_adapter", data,
                        AdapterMessage("CommandMessage", "command", id, "webhook", "estudos",
                                       user_id, EmptyContext,
                                       [command |-> acao,
                                        parameters |-> [topico |-> get(data.topico, "")]]))
      ELSE InputReturns("webhook_adapter", data,
                        AdapterMessage("CommandMessage", "command", id, "webhook", None,
                                       user_id, EmptyContext,
                                       [command |-> "unknown", parameters |-> data]))

\* WebhookAdapter.handle_external_input: CommandMessage(...) raises
\* ValidationError when the payload's command is null.
WebhookAdapter_handle_external_input(input_data, id) ==
    LET source == get(input_data.source, "webhook")
        command == get(input_data.command, "process") IN
    IF source = "n8n"
      THEN _handle_n8n_input(input_data, id)
      ELSE IF ValidStr(command)
        THEN InputReturns("webhook_adapter", input_data,
                          AdapterMessage("CommandMessage", "command", id, "webhook", None,
                                         get(input_data.user_id, None), EmptyContext,
                                         [command |-> command, parameters |-> input_data]))
        ELSE InputRaises("webhook_adapter", input_data, "ValidationError")

\* The caller has taken the envelope (the exception).
external_input_taken ==
    /\ external_input.pc # "idle"
    /\ external_input' = NoInput
    /\ UNCHANGED <<bot, outbox, send_call, router_vars, agent_vars, life_vars, state_vars>>

\* The text TelegramAdapter.send_message makes of message.data (a text that
\* is data itself is written as the dict with the one key "text").
TelegramText(data) ==
    CASE "quiz" \in DOMAIN data -> <<"QUIZ", data.quiz>>
      [] "resumo" \in DOMAIN data -> data.resumo
      [] "error" \in DOMAIN data -> <<"Erro: ", data.error>>
      [] "text" \in DOMAIN data -> data.text
      [] OTHER -> <<"json.dumps", data>>

\* The call of send_message returns, having logged log (None: nothing).
SendReturns(adapter, message, log) ==
    send_call' = [adapter |-> adapter, message |-> message, pc |-> "returned",
                  text |-> None, log |-> log]

\* TelegramAdapter.send_message up to its await of Bot.send_message (or to
\* its return).  An ErrorMessage has no attribute data: reading it raises
\* AttributeError inside the try.
TelegramAdapter_send_message(message) ==
    /\ send_call.pc = "idle"
    /\ IF bot = None
         THEN SendReturns("telegram_adapter", message, "Bot do Telegram nao inicializado")
         ELSE LET chat_id == get(message.context.chat_id, None) IN
              IF ~Truthy(chat_id)
                THEN SendReturns("telegram_adapter", message,
                                 "chat_id nao encontrado na mensagem")
                ELSE IF "data" \notin DOMAIN message
                  THEN SendReturns("telegram_adapter", message,
                                   "Erro ao enviar mensagem para o Telegram")
                  ELSE send_call' = [adapter |-> "telegram_adapter", message |-> message,
                                     pc |-> "bot_send",
                                     text |-> TelegramText(message.data), log |-> None]
    /\ UNCHANGED <<bot, outbox, external_input, router_vars, agent_vars, life_vars, state_vars>>

\* A send_message without its try: the failure of Bot.send_message leaves it.
bot_send_message_raises_uncaught ==
    /\ send_call.pc = "bot_send"
    /\ send_call' = [send_call EXCEPT !.pc = "raised", !.text = None]
    /\ UNCHANGED <<bot, outbox, external_input, router_vars, agent_vars, life_vars, state_vars>>

\* Bot.send_message delivers the text to the chat / raises, which the except
\* clause of send_message logs.
bot_send_message_returns ==
    /\ send_call.pc = "bot_send"
    /\ outbox' = Append(outbox, [chat_id |-> send_call.message.context.chat_id,
                                 text |-> send_call.text])
    /\ send_call' = [send_call EXCEPT !.pc = "returned", !.text = None]
    /\ UNCHANGED <<bot, external_input, router_vars, agent_vars, life_vars, state_vars>>

bot_send_message_raises ==
    /\ send_call.pc = "bot_send"
    /\ send_call' = [send_call EXCEPT !.pc = "returned", !.text = None,
                                      !.log = "Erro ao enviar mensagem para o Telegram"]
    /\ UNCHANGED <<bot, outbox, external_input, router_vars, agent_vars, life_vars, state_vars>>

\* WebhookAdapter.send_message: pass.
WebhookAdapter_send_message(message) ==
    /\ send_call.pc = "idle"
    /\ SendReturns("webhook_adapter", message, None)
    /\ UNCHANGED <<bot, outbox, external_input, router_vars, agent_vars, life_vars, state_vars>>

\* The caller of send_message goes on; the texts delivered are taken.
send_message_returned ==
    /\ send_call.pc \in {"returned", "raised"}
    /\ send_call' = NoSend
    /\ outbox' = <<>>
    /\ UNCHANGED <<bot, external_input, router_vars, agent_vars, life_vars, state_vars>>

(***************************************************************************)
(* Specifications                                                          *)
(***************************************************************************)
\* The steps every envelope takes after the routing decision.
Steps(m) ==
    \/ router_error_sent(m)
    \/ router_error_send_raises(m)
    \/ processing_error_send_raises(m)
    \/ \E success \in BOOLEAN : agent_returns(m, success)
    \/ agent_raises(m)
    \/ reply_sent(m)
    \/ reply_send_raises(m)
    \/ task_error_sent(m)
    \/ task_error_send_raises(m)

\* Spec: several commands of one user and one adapter in flight at once, the
\* agent and the adapter behind the ids being registered and replaced meanwhile.
ConcAgents == {"estudos_agent", "estudos_other"}
ConcAdapters == {"telegram_adapter", "telegram_other"}
ConcEnvelopes(m) ==
    { Envelope(m, type, "telegram", target, "u1") :
        type \in {"command"}, target \in {None} }

Next ==
    \/ \E a \in ConcAgents : register_agent(a)
    \/ \E a \in ConcAdapters : register_adapter(a)
    \/ \E m \in Slots : \E e \in ConcEnvelopes(m) : handle_message(m, e)
    \/ \E m \in Slots : Steps(m)

Spec == Init /\ [][Next]_vars

\* SpecRoute: one envelope, every kind, target, source and user.
AllEnvelopes(m) ==
    { Envelope(m, type, source, target, user_id) :
        type \in MessageType, source \in Sources, target \in Targets, user_id \in Users }

RouteAdapters == {"telegram_adapter", "telegram_other", "webhook_adapter"}

NextRoute ==
    \/ \E a \in AgentObjs : register_agent(a)
    \/ \E a \in RouteAdapters : register_adapter(a)
    \/ \E e \in AllEnvelopes(1) : handle_message(1, e)
    \/ Steps(1)

SpecRoute == Init /\ [][NextRoute]_vars

\* _process_with_agent with the EstudosAgent: "await agent.process_message(
\* message)" starts call c of the agent with the envelope of slot m (the
\* router reads none of the fields the message has beyond the envelope's).
estudos_called(m, c, message) ==
    /\ pc[m] = "agent"
    /\ task_agent[m] = "estudos_agent"
    /\ message.id = env[m].id /\ message.type = env[m].type
    /\ message.source = env[m].source /\ message.user_id = env[m].user_id
    /\ message.context = env[m].context
    /\ process_message(c, message)

\* A task that passes only successful responses on to the adapter.
estudos_returns_successes_only(m, c) ==
    /\ pc[m] = "agent"
    /\ call_pc[c] = "done"
    /\ call_msg[c].id = env[m].id
    /\ response' = [response EXCEPT ![m] = call_result[c]]
    /\ IF env[m].source \in DOMAIN adapters /\ call_result[c].success
         THEN /\ awaiting' = [awaiting EXCEPT ![m] = adapters[env[m].source]]
              /\ sent' = [sent EXCEPT ![m] =
                            Append(@, [adapter |-> adapters[env[m].source],
                                       msg |-> call_result[c]])]
              /\ pc' = [pc EXCEPT ![m] = "t_send"]
              /\ UNCHANGED running_tasks
         ELSE /\ pc' = [pc EXCEPT ![m] = "t_done"]
              /\ running_tasks' = discard(m)
              /\ UNCHANGED <<awaiting, sent>>
    /\ call_pc' = [call_pc EXCEPT ![c] = "idle"]
    /\ call_msg' = [call_msg EXCEPT ![c] = NoCall]
    /\ call_topico' = [call_topico EXCEPT ![c] = ""]
    /\ call_result' = [call_result EXCEPT ![c] = NoMessage]
    /\ call_exception' = [call_exception EXCEPT ![c] = None]
    /\ call_handler' = [call_handler EXCEPT ![c] = None]
    /\ UNCHANGED <<agents, adapters, message_handler, env, task_agent, built, ret,
                   consulted, superseded, model_provider, user_state, life_vars, state_vars, adapter_vars>>

\* The call returns its ResponseMessage to the task, which passes it to the
\* adapter registered for the source, if there is one (router.py:147-152).
estudos_returns(m, c) ==
    /\ pc[m] = "agent"
    /\ call_pc[c] = "done"
    /\ call_msg[c].id = env[m].id
    /\ response' = [response EXCEPT ![m] = call_result[c]]
    /\ IF env[m].source \in DOMAIN adapters
         THEN /\ awaiting' = [awaiting EXCEPT ![m] = adapters[env[m].source]]
              /\ sent' = [sent EXCEPT ![m] =
                            Append(@, [adapter |-> adapters[env[m].source],
                                       msg |-> call_result[c]])]
              /\ pc' = [pc EXCEPT ![m] = "t_send"]
              /\ UNCHANGED running_tasks
         ELSE /\ pc' = [pc EXCEPT ![m] = "t_done"]
              /\ running_tasks' = discard(m)
              /\ UNCHANGED <<awaiting, sent>>
    /\ call_pc' = [call_pc EXCEPT ![c] = "idle"]
    /\ call_msg' = [call_msg EXCEPT ![c] = NoCall]
    /\ call_topico' = [call_topico EXCEPT ![c] = ""]
    /\ call_result' = [call_result EXCEPT ![c] = NoMessage]
    /\ call_exception' = [call_exception EXCEPT ![c] = None]
    /\ call_handler' = [call_handler EXCEPT ![c] = None]
    /\ UNCHANGED <<agents, adapters, message_handler, env, task_agent, built, ret,
                   consulted, superseded, model_provider, user_state, life_vars, state_vars, adapter_vars>>

\* SpecDeliver: one command or query of any user, from a source with or
\* without adapter, routed to the EstudosAgent, processed by it and answered.
DeliverEnvelopes(m) ==
    { Envelope(m, type, source, None, user_id) :
        type \in {"command", "query"}, source \in Sources, user_id \in Users }

NextDeliver ==
    \/ register_agent("estudos_agent")
    \/ register_adapter("telegram_adapter")
    \/ \E e \in DeliverEnvelopes(1) : handle_message(1, e)
    \/ \E message \in AgentMessages : estudos_called(1, 1, message)
    \/ \E outcome \in ProviderOutcomes : resumo_returns(1, outcome)
    \/ \E outcome \in ProviderOutcomes, perguntas \in Quizzes : quiz_returns(1, outcome, perguntas)
    \/ \E outcome \in ProviderOutcomes : query_returns(1, outcome)
    \/ estudos_returns(1, 1)
    \/ reply_sent(1)
    \/ router_error_sent(1)

SpecDeliver == InitAgent /\ [][NextDeliver]_vars

\* SpecLife: the adapters are registered, initialized and shut down while one
\* command of an adapter is routed to an agent.
LifeEnvelopes(m) ==
    { Envelope(m, "command", source, None, "u1") : source \in Sources }

LifeAdapters == {"telegram_adapter", "webhook_adapter", "webhook_other"}

NextLife ==
    \/ register_agent("estudos_other")
    \/ \E a \in LifeAdapters : register_adapter(a)
    \/ \E e \in LifeEnvelopes(1) : handle_message(1, e)
    \/ Steps(1)
    \/ initialize
    \/ \E a \in LifeAdapters : adapter_initialized(a)
    \/ \E a \in LifeAdapters : adapter_initialize_raises(a)
    \/ initialize_returns
    \/ initialize_raises
    \/ shutdown
    \/ \E a \in LifeAdapters : adapter_shut_down(a)
    \/ \E a \in LifeAdapters : adapter_shutdown_raises(a)
    \/ shutdown_returns
    \/ shutdown_raises

SpecLife == Init /\ [][NextLife]_vars

\* SpecAdapter: the two adapters alone.  The TelegramAdapter is registered
\* and initialized with or without token; both adapters translate raw input
\* and are given the messages the agent and the router build.
TelegramTexts ==
    { NoText, <<"/", "start">>, <<"/", "resumo", " ", "HTTP">>, <<"/", "resumo">>,
      <<"/", "quiz", " ", "HTTP", " ", "TCP">>, <<"/", "responder", " ", "AB">>,
      <<"/", "ajuda">>, <<"/">>, <<"ola">>, <<"ola", " ", "mundo">> }

TelegramUpdates ==
    {Update(FALSE, NoText, None, "chat1")}
    \cup { Update(TRUE, text, from_user, "chat1") :
             text \in TelegramTexts, from_user \in {None, "u1"} }

WebhookPayloads ==
    { Payload(source, user_id, command, acao, topico) :
        source \in {Missing, "n8n"}, user_id \in {Missing, "u1"},
        command \in {Missing, None, "resumo"}, acao \in {Missing, "resumo", "apagar"},
        topico \in {Missing, "HTTP"} }

\* The messages an adapter is given: the responses of the EstudosAgent to a
\* request of the adapter, and the ErrorMessages of the router for it (and,
\* from another caller, an ErrorMessage that carries the request's context).
SendableMessages ==
    UNION { LET q == Envelope(1, "command", source, None, "u1") IN
            { _create_success_response(q, "Ola! Eu sou seu assistente de estudos."),
              _create_error_response(q, <<"Comando nao suportado", "ajuda">>),
              HandlerResponse(q, "u1", generate_resume("HTTP")),
              HandlerResponse(q, "u1", generate_quiz("HTTP", <<1, 3>>)),
              HandlerResponse(q, "u1", [avaliacao |-> _avaliar_quiz(<<1, -1>>, <<1, 3>>)]),
              [ErrorMessage(q, "PROCESSING_ERROR") EXCEPT !.context = q.context] }
            \cup { ErrorMessage(q, code) :
                     code \in {"AGENT_DETERMINATION_ERROR", "UNSUPPORTED_MESSAGE_TYPE",
                               "AGENT_PROCESSING_ERROR", "PROCESSING_ERROR"} } :
            source \in Sources }

NextAdapter ==
    \/ register_adapter("telegram_adapter")
    \/ initialize
    \/ adapter_initialized("telegram_adapter")
    \/ initialize_returns
    \/ \E update \in TelegramUpdates, id \in Slots :
          TelegramAdapter_handle_external_input(update, id)
    \/ \E input_data \in WebhookPayloads, id \in Slots :
          WebhookAdapter_handle_external_input(input_data, id)
    \/ external_input_taken
    \/ \E message \in SendableMessages : TelegramAdapter_send_message(message)
    \/ \E message \in SendableMessages : WebhookAdapter_send_message(message)
    \/ bot_send_message_returns
    \/ bot_send_message_raises
    \/ send_message_returned

SpecAdapter == Init /\ [][NextAdapter]_vars

\* "await adapter.send_message(...)" of _handle_error and of
\* _process_with_agent with the TelegramAdapter: the call gets the message
\* just built for slot m.
adapter_send_called(m) ==
    /\ pc[m] \in {"h_send", "t_send", "t_err"}
    /\ awaiting[m] = "telegram_adapter"
    /\ TelegramAdapter_send_message(sent[m][Len(sent[m])].msg)

\* That call has returned to the router.
adapter_send_returned(m) ==
    /\ send_call.pc = "returned"
    /\ send_call.message = sent[m][Len(sent[m])].msg

\* SpecChannel: the router with the TelegramAdapter behind "telegram": the
\* adapter is registered and initialized, an envelope it made of an update
\* of chat "chat1" is answered by the EstudosAgent or fails in the router (no
\* agent, a kind no agent takes, an agent that raises), and the response or
\* the ErrorMessage goes to the adapter's send_message.
ChannelEnvelopes(m) ==
    { Envelope(m, type, "telegram", None, "u1") : type \in {"command", "event"} }

ChannelMessages ==
    { AgentMessage(1, "command", "CommandMessage", "telegram", "u1", command, p, None) :
        command \in {"resumo", "ajuda"}, p \in {[topico |-> "HTTP", respostas |-> <<>>]} }

NextChannel ==
    \/ register_adapter("telegram_adapter")
    \/ \E a \in {"estudos_agent", "estudos_other"} : register_agent(a)
    \/ initialize
    \/ adapter_initialized("telegram_adapter")
    \/ initialize_returns
    \/ \E e \in ChannelEnvelopes(1) : handle_message(1, e)
    \/ agent_raises(1)
    \/ \E message \in ChannelMessages : estudos_called(1, 1, message)
    \/ \E outcome \in ProviderOutcomes : resumo_returns(1, outcome)
    \/ estudos_returns(1, 1)
    \/ adapter_send_called(1)
    \/ bot_send_message_returns
    \/ bot_send_message_raises
    \/ adapter_send_returned(1) /\ router_error_sent(1)
    \/ adapter_send_returned(1) /\ reply_sent(1)
    \/ adapter_send_returned(1) /\ task_error_sent(1)
    \/ pc[1] \in {"h_done", "t_done"} /\ send_message_returned

SpecChannel == InitAgent /\ [][NextChannel]_vars

\* The most texts the chat is followed for.
MaxDelivered == 3

\* The response of call c, which the task passed to the initialized
\* TelegramAdapter when process_message returned, reaches the chat: the
\* Bot.send_message awaited in send_message completes and the task ends.
reply_delivered(c) ==
    /\ call_pc[c] = "done"
    /\ bot # None
    /\ Truthy(get(call_result[c].context.chat_id, None))
    /\ Len(outbox) < MaxDelivered
    /\ outbox' = Append(outbox, [chat_id |-> call_result[c].context.chat_id,
                                 text |-> TelegramText(call_result[c].data)])
    /\ call_pc' = [call_pc EXCEPT ![c] = "idle"]
    /\ call_msg' = [call_msg EXCEPT ![c] = NoCall]
    /\ call_topico' = [call_topico EXCEPT ![c] = ""]
    /\ call_result' = [call_result EXCEPT ![c] = NoMessage]
    /\ call_exception' = [call_exception EXCEPT ![c] = None]
    /\ call_handler' = [call_handler EXCEPT ![c] = None]
    /\ UNCHANGED <<model_provider, user_state, bot, send_call, external_input,
                   router_vars, life_vars, state_vars>>

\* SpecRace: the commands of one Telegram user overlap in the EstudosAgent:
\* each call of process_message runs in a task of its own, the provider
\* answers the calls in any order, and the replies reach the chat in any
\* order.  The TelegramAdapter has been initialized.
InitRace ==
    /\ RouterInit
    /\ AgentIdle
    /\ LifeInit
    /\ bot = "Bot"
    /\ outbox = <<>>
    /\ send_call = NoSend
    /\ external_input = NoInput
    /\ model_provider = "gemini"

RaceQuizzes == {<<0>>, <<1, 3>>}

RaceMessages(c) ==
    { AgentMessage(c, "command", "CommandMessage", "telegram", "u1", "quiz",
                   [topico |-> "HTTP", respostas |-> <<>>], None),
      AgentMessage(c, "command", "CommandMessage", "telegram", "u1", "responder",
                   [topico |-> "", respostas |-> <<"b", "D">>], None) }

NextRace ==
    \/ \E c \in Calls : \E message \in RaceMessages(c) : process_message(c, message)
    \/ \E c \in Calls : \E perguntas \in RaceQuizzes : quiz_returns(c, "ok", perguntas)
    \/ \E c \in Calls : reply_delivered(c)

SpecRace == InitRace /\ [][NextRace]_vars

\* The most questions of a stored quiz and the most characters of an answer
\* text.
MaxQuestions == 2
MaxAnswers == 3

\* The sequences over S of 1 to n elements.
SeqsUpTo(S, n) == UNION { [1..k -> S] : k \in 1..n }

\* GeminiProvider.generate_quiz: a resposta_correta that is not an int of
\* 0..3 becomes 0.
resposta_correta(raw) == IF raw \in 0..3 THEN raw ELSE 0

\* The quizzes the provider returns, made of what the model wrote (-1..4).
GradeQuizzes ==
    { [i \in DOMAIN raw |-> resposta_correta(raw[i])] : raw \in SeqsUpTo(-1..4, MaxQuestions) }

\* The characters of an answer text: letters of A-D in both cases, one that
\* is no option, and the sharp s.
GradeLetters == {"A", "b", "c", "D", "e", "sz"}

\* SpecGrade: a quiz of the provider is the active quiz of u1 and a
\* responder command with some answer text is graded against it.
InitGrade ==
    /\ RouterInit
    /\ LifeInit
    /\ AdapterInit
    /\ model_provider = "gemini"
    /\ \E quiz \in GradeQuizzes :
          user_state = [u \in {"u1"} |->
                          [ultimo_comando |-> Missing, ultimo_topico |-> "HTTP",
                           quiz_atual |-> QuizList(quiz), last_update |-> now]]
    /\ state_call = NoStateCall
    /\ call_pc = [c \in Calls |-> "idle"]
    /\ call_msg = [c \in Calls |-> NoCall]
    /\ call_topico = [c \in Calls |-> ""]
    /\ call_result = [c \in Calls |-> NoMessage]
    /\ call_exception = [c \in Calls |-> None]
    /\ call_handler = [c \in Calls |-> None]

NextGrade ==
    \/ \E respostas \in SeqsUpTo(GradeLetters, MaxAnswers) :
          process_message(1, AgentMessage(1, "command", "CommandMessage", "telegram", "u1",
                                          "responder",
                                          [topico |-> "", respostas |-> respostas], None))
    \/ call_returned(1)

SpecGrade == InitGrade /\ [][NextGrade]_vars

(***************************************************************************)
(* StateManager (src/mcp/core/state_manager.py) called directly.  A state  *)
(* file holds a JSON object; a key the object does not have is held as     *)
(* Missing (NoQuiz for quiz_atual), and the file of a user exists from the *)
(* first save on, which writes last_update.                                *)
(***************************************************************************)
StateUsers == {"u1", "u2"}

\* The keys of a state besides last_update.
StateKeys == {"ultimo_comando", "ultimo_topico", "quiz_atual"}

\* The dicts given to save_state: any of the keys, last_update among them
\* when the dict is one that get_state returned earlier.
StateData ==
    [ultimo_comando : {Missing, "start"}, ultimo_topico : {Missing, "HTTP", "TCP"},
     quiz_atual : {NoQuiz, NullQuiz, QuizList(<<0>>)}, last_update : {Missing, "then"}]

\* key in d
has_key(d, key) == IF key = "quiz_atual" THEN d[key].kind # Missing ELSE d[key] # Missing

\* os.path.exists(file_path)
os_path_exists(user_id) ==
    user_id \in DOMAIN user_state /\ has_key(user_state[user_id], "last_update")

\* StateManager.get_state(user_id): the content of the user's file, {}
\* without one.
get_state(user_id) == IF os_path_exists(user_id) THEN user_state[user_id] ELSE EmptyState

\* A save that writes the dict it was given in place of the stored one.
dict_update_replacing(current_state, data) == data

\* current_state.update(data)
dict_update(current_state, data) ==
    [key \in DOMAIN current_state |->
        IF has_key(data, key) THEN data[key] ELSE current_state[key]]

StateManager_save_state(user_id, data) ==
    /\ user_state' = [user_state EXCEPT
                        ![user_id] = [dict_update(get_state(user_id), data)
                                        EXCEPT !.last_update = now]]
    /\ state_call' = [method |-> "save_state", user_id |-> user_id, data |-> data,
                      state |-> EmptyState, deleted |-> FALSE]
    /\ UNCHANGED <<model_provider, call_pc, call_msg, call_topico, call_result,
                   call_exception, call_handler, router_vars, life_vars, adapter_vars>>

StateManager_get_state(user_id) ==
    /\ state_call' = [method |-> "get_state", user_id |-> user_id, data |-> EmptyState,
                      state |-> get_state(user_id), deleted |-> FALSE]
    /\ UNCHANGED <<agent_vars, router_vars, life_vars, adapter_vars>>

\* StateManager.delete_state(user_id): os.remove when the file exists, with
\* True returned, and False returned without one.
StateManager_delete_state(user_id) ==
    /\ user_state' = [user_state EXCEPT
                        ![user_id] = IF os_path_exists(user_id) THEN EmptyState ELSE @]
    /\ state_call' = [method |-> "delete_state", user_id |-> user_id, data |-> EmptyState,
                      state |-> EmptyState, deleted |-> os_path_exists(user_id)]
    /\ UNCHANGED <<model_provider, call_pc, call_msg, call_topico, call_result,
                   call_exception, call_handler, router_vars, life_vars, adapter_vars>>

\* SpecState: the methods of the StateManager are called for two users in
\* any order, no state file existing at the start.
InitState ==
    /\ RouterInit
    /\ LifeInit
    /\ AdapterInit
    /\ model_provider = "gemini"
    /\ user_state = [u \in StateUsers |-> EmptyState]
    /\ state_call = NoStateCall
    /\ call_pc = [c \in Calls |-> "idle"]
    /\ call_msg = [c \in Calls |-> NoCall]
    /\ call_topico = [c \in Calls |-> ""]
    /\ call_result = [c \in Calls |-> NoMessage]
    /\ call_exception = [c \in Calls |-> None]
    /\ call_handler = [c \in Calls |-> None]

NextState ==
    \/ \E user_id \in StateUsers, data \in StateData : StateManager_save_state(user_id, data)
    \/ \E user_id \in StateUsers : StateManager_get_state(user_id)
    \/ \E user_id \in StateUsers : StateManager_delete_state(user_id)

SpecState == InitState /\ [][NextState]_vars

\* The fields of an adapter's envelope that the router reads.
RouterEnvelope(message) ==
    [id |-> message.id, type |-> message.type, source |-> message.source,
     target |-> message.target, user_id |-> message.user_id, context |-> message.context]

\* The callbacks of the TelegramAdapter (_handle_start ... _handle_message),
\* from the return of handle_external_input on:
\* "await self.message_handler(message)" with the envelope just made.
callback_handles(m) ==
    /\ external_input.pc = "returned"
    /\ external_input.adapter = "telegram_adapter"
    /\ message_handler["telegram_adapter"] = "handle_message"
    /\ handle_message(m, RouterEnvelope(external_input.result))

\* SpecInput: updates of Telegram become envelopes and the callbacks give
\* them to the router, with or without the EstudosAgent registered.
NextInput ==
    \/ register_adapter("telegram_adapter")
    \/ register_agent("estudos_agent")
    \/ \E update \in TelegramUpdates, id \in Slots :
          TelegramAdapter_handle_external_input(update, id)
    \/ \E m \in Slots : callback_handles(m)
    \/ external_input_taken

SpecInput == Init /\ [][NextInput]_vars

(***************************************************************************)
(* Properties                                                              *)
(***************************************************************************)
\* handle_message takes envelope m in this step.
Accepted(m) == pc[m] = "new" /\ pc'[m] # "new"

\* The codes of the ErrorMessages built for envelope m, in order.
Codes(m) == [i \in DOMAIN built[m] |-> built[m][i].error_code]

\* No agent's process_message was or will be called for envelope m.
NoAgent(m) ==
    task_agent[m] = None /\ m \notin running_tasks /\ response[m] = NoMessage
    /\ pc[m] \in {"h_send", "h_exc", "h_done", "h_raised"}

\* C1: an envelope of any kind whose target is the id of a registered agent
\* is given to exactly that agent in a new task: the selection policy is not
\* consulted and no ErrorMessage is built.
C1_TargetDispatch ==
    [][\A m \in Slots :
         (Accepted(m) /\ env'[m].target \in DOMAIN agents) =>
            /\ pc'[m] = "agent"
            /\ task_agent'[m] = agents[env'[m].target]
            /\ running_tasks' = running_tasks \cup {m}
            /\ ~consulted'[m]
            /\ built'[m] = <<>>
            /\ sent'[m] = <<>>]_vars

\* C1 witness: an event targeted at "outro" is with outro's agent while
\* "estudos", the policy's agent, is registered too.
C1_Witness ==
    /\ pc[1] = "agent" /\ env[1].type = "event" /\ env[1].target = "outro"
    /\ task_agent[1] = "outro_agent" /\ "estudos" \in DOMAIN agents
    /\ ~consulted[1]

\* C2: a Command or Query without target goes to the agent registered under
\* the id the selection policy returns; when that id is not registered no
\* agent is invoked, whatever else is registered, and the one ErrorMessage
\* built has code AGENT_DETERMINATION_ERROR.
C2_PolicyDispatch ==
    /\ [][\A m \in Slots :
            (Accepted(m) /\ env'[m].target = None
                /\ env'[m].type \in {"command", "query"}) =>
               /\ consulted'[m]
               /\ IF _determine_agent_for_message(env'[m]) \in DOMAIN agents
                    THEN /\ pc'[m] = "agent"
                         /\ task_agent'[m] =
                              agents[_determine_agent_for_message(env'[m])]
                         /\ built'[m] = <<>>
                    ELSE /\ task_agent'[m] = None
                         /\ m \notin running_tasks'
                         /\ Len(built'[m]) = 1
                         /\ built'[m][1].type = "error"
                         /\ built'[m][1].error_code = "AGENT_DETERMINATION_ERROR"]_vars
    /\ [](\A m \in Slots :
            (Codes(m) # <<>> /\ Codes(m)[1] = "AGENT_DETERMINATION_ERROR") => NoAgent(m))

\* C2 witness: a query without target is refused with
\* AGENT_DETERMINATION_ERROR while another agent, "outro", is registered.
C2_Witness ==
    /\ env[1].type = "query" /\ env[1].target = None
    /\ "outro" \in DOMAIN agents /\ "estudos" \notin DOMAIN agents
    /\ Codes(1) = <<"AGENT_DETERMINATION_ERROR">> /\ NoAgent(1)

\* C3: a Response, Error or Event without target is refused with
\* UNSUPPORTED_MESSAGE_TYPE and never reaches an agent.
C3_UnsupportedKind ==
    /\ [][\A m \in Slots :
            (Accepted(m) /\ env'[m].target = None
                /\ env'[m].type \in {"response", "error", "event"}) =>
               /\ task_agent'[m] = None
               /\ m \notin running_tasks'
               /\ ~consulted'[m]
               /\ Len(built'[m]) = 1
               /\ built'[m][1].type = "error"
               /\ built'[m][1].error_code = "UNSUPPORTED_MESSAGE_TYPE"]_vars
    /\ [](\A m \in Slots :
            (Codes(m) # <<>> /\ Codes(m)[1] = "UNSUPPORTED_MESSAGE_TYPE") => NoAgent(m))

\* C3 witness: an event without target was refused while the policy's agent
\* is registered, and the error was passed to the source's adapter.
C3_Witness ==
    /\ env[1].type = "event" /\ env[1].target = None
    /\ "estudos" \in DOMAIN agents
    /\ Codes(1) = <<"UNSUPPORTED_MESSAGE_TYPE">> /\ NoAgent(1)
    /\ Len(sent[1]) = 1 /\ pc[1] = "h_done"

\* The agent's process_message raised for envelope m: the task is past the
\* agent call and holds no response.
AgentRaised(m) ==
    pc[m] \in {"t_err", "t_done", "t_raised"} /\ response[m] = NoMessage

\* The task of envelope m has ended.
TaskEnded(m) == pc[m] \in {"t_done", "t_raised"}

\* C4: when the agent raises for an envelope whose source is a registered
\* adapter, that adapter's send_message is called once, with an ErrorMessage
\* of code AGENT_PROCESSING_ERROR, and never again for that envelope; the
\* ended task is not in running_tasks; the next envelope can be handed in.
C4_AgentFailureDelivered ==
    /\ [][\A m \in Slots :
            (pc[m] = "agent" /\ pc'[m] # "agent" /\ response'[m] = NoMessage
                /\ env[m].source \in DOMAIN adapters) =>
               /\ pc'[m] = "t_err"
               /\ Len(sent'[m]) = 1
               /\ sent'[m][1].adapter = adapters[env[m].source]
               /\ sent'[m][1].msg.type = "error"
               /\ sent'[m][1].msg.error_code = "AGENT_PROCESSING_ERROR"
               /\ sent'[m][1].msg.original_message_id = env[m].id]_vars
    /\ [](\A m \in Slots :
            AgentRaised(m) =>
               /\ Len(sent[m]) <= 1
               /\ TaskEnded(m) => m \notin running_tasks
               /\ (m + 1 \in Slots /\ pc[m + 1] = "new") =>
                     ENABLED (\E e \in ConcEnvelopes(m + 1) : handle_message(m + 1, e)))

\* C4 witness: the agent raised for envelope 1, its error went to the
\* adapter, its task ended and left running_tasks, and envelope 2 is with
\* its agent.
C4_Witness ==
    /\ AgentRaised(1) /\ pc[1] = "t_done" /\ 1 \notin running_tasks
    /\ Len(sent[1]) = 1 /\ sent[1][1].msg.type = "error"
    /\ sent[1][1].msg.error_code = "AGENT_PROCESSING_ERROR"
    /\ pc[2] = "agent" /\ running_tasks = {2}

\* C5 (the claim as stated): a caller whose envelope's source is not a
\* registered adapter gets the agent's ResponseMessage as the value of
\* handle_message; for an adapter's envelope handle_message returns None.
C5_DirectCallerGetsResponse ==
    \A m \in Slots :
       (TaskEnded(m) /\ response[m] # NoMessage) =>
          IF env[m].source \in DOMAIN adapters
            THEN ret[m] = NoMessage
            ELSE ret[m] = response[m]

\* The ResponseMessages among the send_message calls made for envelope m.
Replies(m) == { i \in DOMAIN sent[m] : sent[m][i].msg.type = "response" }

\* C6: commands of one user and one adapter in flight together, each with
\* an EstudosAgent: when an agent call returns, its ResponseMessage is passed
\* to the adapter registered for the source, and every ResponseMessage sent
\* for an envelope answers that envelope and no other; there is at most one
\* per envelope, and exactly one once its task has ended.
C6_ConcurrentCorrelation ==
    /\ [][\A m \in Slots :
            (pc[m] = "agent" /\ pc'[m] # "agent" /\ task_agent[m] = "estudos_agent"
                /\ env[m].source \in DOMAIN adapters) =>
               /\ response'[m].type = "response"
               /\ response'[m].response_to = env[m].id
               /\ sent'[m] = <<[adapter |-> adapters[env[m].source],
                                msg |-> response'[m]]>>]_vars
    /\ [](\A m \in Slots :
            /\ Cardinality(Replies(m)) <= 1
            /\ \A i \in Replies(m) :
                  /\ sent[m][i].msg.response_to = env[m].id
                  /\ sent[m][i].msg.user_id = env[m].user_id
                  /\ \A k \in Slots \ {m} : sent[m][i].msg.response_to # env[k].id
            /\ (TaskEnded(m) /\ sent[m] # <<>> /\ task_agent[m] = "estudos_agent")
                  => Cardinality(Replies(m)) = 1)

\* C6 witness: two commands of user u1 from "telegram", both with the
\* EstudosAgent; the second has been answered and its task has ended while
\* the first's agent call has not returned.
C6_Witness ==
    /\ pc[1] = "agent" /\ pc[2] = "t_done"
    /\ task_agent[1] = "estudos_agent" /\ task_agent[2] = "estudos_agent"
    /\ env[1].user_id = env[2].user_id /\ env[1].source = env[2].source
    /\ Len(sent[2]) = 1 /\ sent[2][1].msg.type = "response"
    /\ sent[2][1].msg.response_to = 2

\* C7: every ResponseMessage EstudosAgent.process_message returns, successful
\* or failed, from any handler and from the exception path, carries the
\* request's id in response_to and the request's user_id.
C7_ResponseCorrelation ==
    \A c \in Calls :
        call_pc[c] = "done" =>
            /\ call_result[c].type = "response"
            /\ call_result[c].response_to = call_msg[c].id
            /\ call_result[c].user_id = call_msg[c].user_id

\* C7: a CommandMessage whose command is "query" took the exception path of
\* process_message and the failed response answers it.
C7_Witness ==
    \E c \in Calls :
        /\ call_pc[c] = "done"
        /\ call_msg[c].command = "query"
        /\ call_msg[c].id = 2
        /\ call_msg[c].user_id = "u1"
        /\ ~call_result[c].success
        /\ call_result[c].response_to = 2
        /\ call_result[c].user_id = "u1"
        /\ call_result[c].data.error = <<"Erro ao processar mensagem", "AttributeError">>


\* C8: an envelope is never given to an agent object whose binding a later
\* register_agent replaced: the agent that gets it is bound to the id the
\* envelope resolves to (its target, or else the policy's id) and is not
\* superseded.
C8_ReplacedBinding ==
    [][\A m \in Slots :
         (Accepted(m) /\ pc'[m] = "agent") =>
            /\ task_agent'[m] \notin superseded
            /\ agent_id(task_agent'[m]) =
                 IF env'[m].target \in DOMAIN agents
                   THEN env'[m].target
                   ELSE _determine_agent_for_message(env'[m])]_vars

\* C8 witness: "estudos" was bound to estudos_agent and then to
\* estudos_other, and a query without target is with estudos_other.
C8_Witness ==
    /\ superseded = {"estudos_agent"} /\ agents["estudos"] = "estudos_other"
    /\ pc[1] = "agent" /\ task_agent[1] = "estudos_other"
    /\ env[1].type = "query" /\ env[1].target = None

\* The target of envelope m is set and names neither a registered agent nor a
\* registered adapter.
TargetNamesNothing(e) ==
    /\ e.target # None /\ e.target # ""
    /\ e.target \notin DOMAIN agents /\ e.target \notin DOMAIN adapters

\* C9 (the claim as stated): an envelope whose target names neither a
\* registered agent nor a registered adapter ends in a router ErrorMessage and
\* reaches no agent.
C9_UnknownTargetRefused ==
    \A m \in Slots :
       (pc[m] # "new" /\ TargetNamesNothing(env[m])) =>
          NoAgent(m) /\ built[m] # <<>>

\* C9 (as amended): such an envelope is refused with one ErrorMessage, passed
\* to the source's adapter when there is one, and reaches no agent, unless
\* it is a Command or Query and the policy's agent is registered: then it is
\* given to that agent.
C9_UnknownTargetAmended ==
    [][\A m \in Slots :
         (Accepted(m) /\ TargetNamesNothing(env'[m])) =>
            IF env'[m].type \in {"command", "query"}
                 /\ _determine_agent_for_message(env'[m]) \in DOMAIN agents
              THEN /\ pc'[m] = "agent"
                   /\ task_agent'[m] = agents[_determine_agent_for_message(env'[m])]
                   /\ built'[m] = <<>>
              ELSE /\ task_agent'[m] = None
                   /\ m \notin running_tasks'
                   /\ Len(built'[m]) = 1
                   /\ built'[m][1].error_code =
                        (IF env'[m].type \in {"command", "query"}
                           THEN "AGENT_DETERMINATION_ERROR"
                           ELSE "UNSUPPORTED_MESSAGE_TYPE")
                   /\ IF env'[m].source \in DOMAIN adapters
                        THEN sent'[m] = <<[adapter |-> adapters[env'[m].source],
                                           msg |-> built'[m][1]]>>
                        ELSE sent'[m] = <<>>]_vars

\* C9 witness: a response targeted at the unregistered "outro" was refused
\* and the error handed to the adapter of its source.
C9_Witness ==
    /\ env[1].type = "response" /\ env[1].target = "outro"
    /\ TargetNamesNothing(env[1]) /\ NoAgent(1)
    /\ Codes(1) = <<"UNSUPPORTED_MESSAGE_TYPE">>
    /\ Len(sent[1]) = 1 /\ sent[1][1].msg = built[1][1]

\* C10: a Command or Query whose target is set but is no registered agent id
\* goes through the selection policy: to the policy's agent when it is
\* registered, and otherwise to an AGENT_DETERMINATION_ERROR.
C10_FallThroughToPolicy ==
    [][\A m \in Slots :
         (Accepted(m) /\ env'[m].type \in {"command", "query"}
             /\ env'[m].target # None /\ env'[m].target \notin DOMAIN agents) =>
            /\ consulted'[m]
            /\ IF _determine_agent_for_message(env'[m]) \in DOMAIN agents
                 THEN /\ pc'[m] = "agent"
                      /\ task_agent'[m] = agents[_determine_agent_for_message(env'[m])]
                      /\ built'[m] = <<>>
                 ELSE /\ task_agent'[m] = None
                      /\ m \notin running_tasks'
                      /\ Len(built'[m]) = 1
                      /\ built'[m][1].error_code = "AGENT_DETERMINATION_ERROR"]_vars

\* C10 witness: a command targeted at the unregistered "outro" is with the
\* policy's agent.
C10_Witness ==
    /\ env[1].type = "command" /\ env[1].target = "outro"
    /\ "outro" \notin DOMAIN agents
    /\ consulted[1] /\ pc[1] = "agent" /\ task_agent[1] = agents["estudos"]

\* C11: every ErrorMessage _handle_error builds for an envelope has the
\* envelope's source as target, the envelope's id as original_message_id and
\* the envelope's user_id; it is passed to send_message of the adapter
\* registered under the source, and when there is none no send_message is
\* called for any envelope.
C11_ErrorFieldsAndDelivery ==
    [][\A m \in Slots :
         Len(built'[m]) > Len(built[m]) =>
            LET e == built'[m][Len(built'[m])] IN
            /\ Len(built'[m]) = Len(built[m]) + 1
            /\ e.type = "error"
            /\ e.target = env'[m].source
            /\ e.original_message_id = env'[m].id
            /\ e.user_id = env'[m].user_id
            /\ IF env'[m].source \in DOMAIN adapters
                 THEN sent'[m] = Append(sent[m], [adapter |-> adapters[env'[m].source],
                                                  msg |-> e])
                 ELSE sent'[m] = sent[m]
            /\ \A k \in Slots \ {m} : sent'[k] = sent[k]]_vars

\* C11: the ErrorMessage of an envelope of user u1 from the webhook adapter
\* was passed to that adapter.
C11_Witness ==
    /\ env[1].source = "webhook" /\ env[1].user_id = "u1"
    /\ "webhook" \in DOMAIN adapters
    /\ Len(built[1]) = 1
    /\ built[1][1].target = "webhook" /\ built[1][1].user_id = "u1"
    /\ sent[1] = <<[adapter |-> adapters["webhook"], msg |-> built[1][1]]>>

\* C12 (the claim as stated): no exception leaves handle_message or a dispatch
\* task, whatever the agent and the adapter of the source do, also when the
\* adapter's send_message raises while a reply or an error is delivered.
C12_NoExceptionEscapes ==
    \A m \in Slots :
        /\ pc[m] \notin {"h_raised", "t_raised"}
        /\ ret[m] # Raised

\* C13: when the dispatch logic of handle_message raises (the delivery of the
\* determination / unsupported-type error is the step of it that can), the
\* except clause builds one ErrorMessage with error_code PROCESSING_ERROR and
\* passes it to the adapter registered under the source, or to nobody when
\* there is none; no envelope gets more than one PROCESSING_ERROR.
C13_DispatchFailureConverted ==
    /\ [][\A m \in Slots :
            (pc[m] = "h_send" /\ pc'[m] # "h_send"
                /\ ~(pc'[m] = "h_done" /\ built'[m] = built[m])) =>
               /\ built'[m] = Append(built[m], ErrorMessage(env[m], "PROCESSING_ERROR"))
               /\ IF env[m].source \in DOMAIN adapters
                    THEN /\ sent'[m] = Append(sent[m],
                                               [adapter |-> adapters[env[m].source],
                                                msg |-> built'[m][Len(built'[m])]])
                         /\ pc'[m] = "h_exc"
                    ELSE /\ sent'[m] = sent[m]
                         /\ pc'[m] = "h_done"]_vars
    /\ [](\A m \in Slots :
            Cardinality({i \in DOMAIN built[m] :
                           built[m][i].error_code = "PROCESSING_ERROR"}) <= 1)

\* C13: the delivery of an UNSUPPORTED_MESSAGE_TYPE error raised and the
\* PROCESSING_ERROR built for it was passed to the adapter of the source.
C13_Witness ==
    /\ pc[1] = "h_exc"
    /\ Codes(1) = <<"UNSUPPORTED_MESSAGE_TYPE", "PROCESSING_ERROR">>
    /\ Len(sent[1]) = 2
    /\ sent[1][2] = [adapter |-> adapters[env[1].source], msg |-> built[1][2]]

\* C14 (the claim as stated): when an adapter's initialize fails, the failure
\* reaches the caller of MCPRouter.initialize only after the initialize of
\* every adapter has completed or failed.
C14_FailureAfterAllSettled ==
    init_call = "raised" =>
        \A a \in AdapterObjs : init_task[a] \in {"none", "done", "failed"}

\* A step of MCPRouter.shutdown or of an adapter's shutdown().
ShutdownStep == shutdown_call' # shutdown_call \/ shutdown_task' # shutdown_task

\* C15: MCPRouter.shutdown starts shutdown() of every registered adapter and
\* returns only when all of them have ended; no step of it changes
\* running_tasks, the registries or a dispatch task, and a task in flight can
\* still take its next step while and after the router is shut down.
C15_ShutdownLeavesTasks ==
    /\ [][ShutdownStep => UNCHANGED router_vars]_vars
    /\ [][(shutdown_call = "idle" /\ shutdown_call' # "idle") =>
             \A a \in Range(adapters) : shutdown_task'[a] = "running"]_vars
    /\ [][(shutdown_call # "returned" /\ shutdown_call' = "returned") =>
             \A a \in AdapterObjs : shutdown_task[a] \in {"none", "done"}]_vars
    /\ [](shutdown_call # "idle" =>
             \A m \in Slots : m \in running_tasks => ENABLED Steps(m))

\* C15: shutdown has returned after shutting the adapter of the source down,
\* and the dispatch task of an envelope is still in flight.
C15_Witness ==
    /\ shutdown_call = "returned"
    /\ pc[1] = "agent" /\ 1 \in running_tasks
    /\ env[1].source \in DOMAIN adapters
    /\ shutdown_task[adapters[env[1].source]] = "done"

\* C16 (the claim as stated): no send_message is invoked on an adapter whose
\* shutdown() has completed.
C16_NoUseAfterShutdown ==
    [][\A m \in Slots :
         Len(sent'[m]) > Len(sent[m]) =>
            shutdown_task[sent'[m][Len(sent'[m])].adapter] # "done"]_vars

\* C17: before any registration every adapter's message_handler is unset and
\* it changes in no other step; register_adapter(a) binds a.adapter_id to a,
\* replacing the adapter bound before, sets a.message_handler to the router's
\* handle_message and leaves the agent registry and running_tasks alone.
C17_RegisterAdapter ==
    /\ \A a \in AdapterObjs : message_handler[a] = None
    /\ [][(adapters' # adapters \/ message_handler' # message_handler) =>
             \E a \in AdapterObjs :
                /\ adapters' = [k \in DOMAIN adapters \cup {adapter_id(a)} |->
                                  IF k = adapter_id(a) THEN a ELSE adapters[k]]
                /\ message_handler' = [message_handler EXCEPT ![a] = "handle_message"]
                /\ UNCHANGED <<agents, running_tasks>>]_vars
    /\ [](\A a \in Range(adapters) : message_handler[a] = "handle_message")

\* C17: telegram_other was registered over telegram_adapter, and no adapter
\* was registered under "webhook".
C17_Witness ==
    /\ DOMAIN adapters = {"telegram"}
    /\ adapters["telegram"] = "telegram_other"
    /\ message_handler["telegram_other"] = "handle_message"
    /\ message_handler["telegram_adapter"] = "handle_message"
    /\ message_handler["webhook_adapter"] = None

\* C18: in every state of the registries the selection policy gives one and
\* the same agent id, a non-empty one, for all envelopes, whatever their
\* kind, source, target and user, the envelopes it was consulted for included.
C18_PolicyIgnoresEnvelope ==
    /\ Cardinality({_determine_agent_for_message(e) : e \in AllEnvelopes(1)}) = 1
    /\ \A e \in AllEnvelopes(1) : Truthy(_determine_agent_for_message(e))
    /\ \A m \in Slots, e \in AllEnvelopes(1) :
          consulted[m] => _determine_agent_for_message(env[m]) = _determine_agent_for_message(e)

\* C18: the policy was consulted for a query addressed to "outro" while
\* "outro" was the only id with an agent, and still named "estudos".
C18_Witness ==
    /\ consulted[1]
    /\ env[1].type = "query" /\ env[1].target = "outro"
    /\ DOMAIN agents = {"outro"}
    /\ _determine_agent_for_message(env[1]) = "estudos"
    /\ task_agent[1] = None

\* C19: a call of EstudosAgent.process_message is idle, suspended at the model
\* provider or has returned a ResponseMessage, for every message and every
\* answer of the provider; an exception raised during the call exists only
\* as the returned response, which has success = false and the exception's
\* description in data.error.
C19_AgentNeverRaises ==
    \A c \in Calls :
        /\ call_pc[c] \in {"idle", "resumo_await", "quiz_await", "query_await", "done"}
        /\ call_pc[c] = "done" => call_result[c].type = "response"
        /\ call_exception[c] # None =>
              /\ call_pc[c] = "done"
              /\ ~call_result[c].success
              /\ call_result[c].data.error[2] = call_exception[c]

\* C19: the model provider raised inside the resumo handler and the call
\* returned a failed response describing the exception.
C19_Witness ==
    \E c \in Calls :
        /\ call_pc[c] = "done"
        /\ call_msg[c].command = "resumo"
        /\ call_exception[c] = "Exception"
        /\ ~call_result[c].success
        /\ call_result[c].data.error = <<"Erro ao gerar resumo", "Exception">>

\* The message of call c is a CommandMessage whose command is not a key of
\* the capability map.
UnknownCommand(c) ==
    /\ call_msg[c].type = "command" /\ call_msg[c].cls = "CommandMessage"
    /\ call_msg[c].command \notin capabilities

\* C20: a CommandMessage with a command outside the capability map is
\* answered, without any exception, by a ResponseMessage with success = false
\* and data = {error: "Comando nao suportado: <command>"}; the dispatch task
\* passes that very response to send_message of the adapter registered for
\* the source.
C20_UnsupportedCommandAnswered ==
    /\ [](\A c \in Calls :
            (call_pc[c] = "done" /\ UnknownCommand(c)) =>
               /\ call_exception[c] = None
               /\ call_result[c] =
                    [type |-> "response", source |-> "estudos",
                     target |-> call_msg[c].source, user_id |-> call_msg[c].user_id,
                     context |-> call_msg[c].context,
                     response_to |-> call_msg[c].id, success |-> FALSE,
                     data |-> [error |-> <<"Comando nao suportado", call_msg[c].command>>]])
    /\ [][\A m \in Slots :
            (pc[m] = "agent" /\ pc'[m] # "agent" /\ UnknownCommand(1)) =>
               /\ response'[m] = call_result[1]
               /\ IF env[m].source \in DOMAIN adapters
                    THEN /\ pc'[m] = "t_send"
                         /\ sent'[m] = <<[adapter |-> adapters[env[m].source],
                                          msg |-> call_result[1]]>>
                    ELSE /\ pc'[m] = "t_done"
                         /\ sent'[m] = <<>>]_vars

\* C20: the command "ajuda" came from the telegram adapter and the failed
\* response of the agent was sent through that adapter.
C20_Witness ==
    /\ pc[1] = "t_done"
    /\ env[1].source = "telegram"
    /\ Len(sent[1]) = 1
    /\ sent[1][1].adapter = "telegram_adapter"
    /\ sent[1][1].msg.type = "response"
    /\ ~sent[1][1].msg.success
    /\ sent[1][1].msg.data.error = <<"Comando nao suportado", "ajuda">>
    /\ sent[1][1].msg.response_to = env[1].id

\* C21 (the claim as stated): handle_command and handle_query never raise,
\* and a step of handle_command(name, params, context) or of
\* handle_query(text, context) is a step of process_message applied to the
\* CommandMessage / QueryMessage with the same fields: same response, same
\* stored state, same suspension at the model provider.
C21_EntryPointsLikeProcessMessage ==
    /\ [](\A c \in Calls : call_pc[c] # "raised")
    /\ [][\A id \in Slots, context \in EntryContexts :
            /\ \A command \in EntryCommands :
                  \A params \in CommandParameters(command) :
                     handle_command(1, id, command, params, context) =>
                        process_message(1, CommandMessage(id, get(context.source, "unknown"),
                                                          get(context.user_id, None),
                                                          context, command, params))
            /\ \A query \in EntryQueries :
                  handle_query(1, id, query, context) =>
                     process_message(1, QueryMessage(id, get(context.source, "unknown"),
                                                     get(context.user_id, None),
                                                     context, query))]_vars

\* Call c takes its message in this step.
Called(c) == call_pc[c] = "idle" /\ call_pc'[c] # "idle"

\* The handler _register_capabilities binds to each command name.
HandlerOf(command) ==
    CASE command = "start" -> "_handle_start"
      [] command = "resumo" -> "_handle_resumo"
      [] command = "quiz" -> "_handle_quiz"
      [] command = "responder" -> "_handle_responder"
      [] command = "query" -> "_handle_query"

\* Call c rejects its message in this step: it returns a failed
\* ResponseMessage with the error text, runs no handler and writes no state.
Rejected(c, text) ==
    /\ call_pc'[c] = "done"
    /\ call_result'[c].type = "response"
    /\ ~call_result'[c].success
    /\ call_result'[c].data = [error |-> text]
    /\ call_handler'[c] = None
    /\ user_state' = user_state

\* C22 (the claim as stated): process_message dispatches on the kind alone: a
\* Command envelope invokes the handler registered under its command name, a
\* Query envelope always invokes the query handler, and an envelope of kind
\* Response, Event or Error is rejected with a failed ResponseMessage naming
\* the kind, no handler running and no user state being written.
C22_DispatchOnKind ==
    [][\A c \in Calls :
         Called(c) =>
            LET message == call_msg'[c] IN
            CASE message.type = "command" ->
                   message.command \in capabilities =>
                      call_handler'[c] = HandlerOf(message.command)
              [] message.type = "query" -> call_handler'[c] = "_handle_query"
              [] OTHER ->
                   Rejected(c, <<"Tipo de mensagem nao suportado", message.type>>)]_vars

\* C22 (as amended): process_message dispatches on the kind and on the class:
\* a Command envelope that is a CommandMessage invokes the handler registered
\* under its command name, or is rejected as unsupported when there is none;
\* a Query envelope that is a QueryMessage invokes the query handler; a
\* Command or Query envelope of another class is rejected as invalid; an
\* envelope of kind Response, Event or Error is rejected with a failed
\* ResponseMessage naming the kind.  A rejection runs no handler and writes
\* no user state.
C22_DispatchOnKindAmended ==
    [][\A c \in Calls :
         Called(c) =>
            LET message == call_msg'[c] IN
            CASE message.type = "command" /\ message.cls = "CommandMessage" ->
                   IF message.command \in capabilities
                     THEN call_handler'[c] = HandlerOf(message.command)
                     ELSE Rejected(c, <<"Comando nao suportado", message.command>>)
              [] message.type = "command" /\ message.cls # "CommandMessage" ->
                   Rejected(c, <<"Mensagem de comando invalida", "">>)
              [] message.type = "query" /\ message.cls = "QueryMessage" ->
                   call_handler'[c] = "_handle_query"
              [] message.type = "query" /\ message.cls # "QueryMessage" ->
                   Rejected(c, <<"Mensagem de consulta invalida", "">>)
              [] OTHER ->
                   Rejected(c, <<"Tipo de mensagem nao suportado", message.type>>)]_vars

\* C22: an envelope of kind Event from user u1, who has stored state, was
\* rejected: the response names the kind, no handler ran and the state is
\* what the earlier command left.
C22_Witness ==
    \E c \in Calls :
        /\ call_pc[c] = "done"
        /\ call_msg[c].type = "event" /\ call_msg[c].user_id = "u1"
        /\ call_handler[c] = None
        /\ ~call_result[c].success
        /\ call_result[c].data.error = <<"Tipo de mensagem nao suportado", "event">>
        /\ user_state["u1"].ultimo_topico = "HTTP"

\* The message is one the agent fails locally, given the stored state and the
\* provider: an unsupported command, resumo without topic, responder without
\* answers, without user id or without active quiz, or a command or query
\* that needs the model provider while there is none.
LocalFailure(message) ==
    \/ /\ message.type = "command" /\ message.cls = "CommandMessage"
       /\ \/ message.command \notin capabilities
          \/ message.command = "resumo" /\ ~Truthy(message.parameters.topico)
          \/ /\ message.command = "responder"
             /\ \/ message.parameters.respostas = <<>>
                \/ ~Truthy(message.user_id)
                \/ user_state[message.user_id].quiz_atual.items = <<>>
          \/ message.command \in {"resumo", "quiz"} /\ model_provider = None
    \/ message.type = "query" /\ message.cls = "QueryMessage" /\ model_provider = None

\* Call c returns a failed ResponseMessage in this step.
Failed(c) ==
    /\ call_pc'[c] = "done"
    /\ call_result'[c].type = "response"
    /\ ~call_result'[c].success
    /\ DOMAIN call_result'[c].data = {"error"}
    /\ call_result'[c].data.error[1] # ""

\* C23: whatever process_message returns has kind Response, and a returned
\* failure has data = {error: text}; each agent-local failure (unsupported
\* command, resumo without topic, responder without answers, user id or
\* active quiz, no model provider, the provider reporting failure) returns
\* such a failed ResponseMessage, with success = false.
C23_LocalFailuresAreResponses ==
    /\ [](\A c \in Calls :
            call_pc[c] = "done" =>
               /\ call_result[c].type = "response"
               /\ ~call_result[c].success => DOMAIN call_result[c].data = {"error"})
    /\ [][\A c \in Calls :
            (Called(c) /\ LocalFailure(call_msg'[c])) => Failed(c)]_vars
    /\ [][\A c \in Calls :
            (\/ resumo_returns(c, "fail")
             \/ \E perguntas \in Quizzes : quiz_returns(c, "fail", perguntas)
             \/ query_returns(c, "fail")) => Failed(c)]_vars

\* C23: the model provider reported failure for the resumo of "HTTP" and the
\* call returned a failed ResponseMessage with the provider's text, no
\* exception having been raised.
C23_Witness ==
    \E c \in Calls :
        /\ call_pc[c] = "done"
        /\ call_msg[c].command = "resumo"
        /\ call_exception[c] = None
        /\ call_result[c].type = "response"
        /\ ~call_result[c].success
        /\ call_result[c].data =
              [error |-> <<"Nao foi possivel gerar um resumo satisfatorio para", "HTTP">>]

\* The raw input of the call in hand is malformed: a Telegram update without
\* message, a Telegram message without text or without sender, a webhook
\* payload without command (or with a null one), an n8n payload without a
\* known acao.
Malformed ==
    \/ /\ external_input.adapter = "telegram_adapter"
       /\ \/ ~external_input.raw.message
          \/ external_input.raw.text = NoText
          \/ external_input.raw.from_user = None
    \/ /\ external_input.adapter = "webhook_adapter"
       /\ IF external_input.raw.source = "n8n"
            THEN external_input.raw.acao \notin {"resumo", "quiz"}
            ELSE external_input.raw.command \in {Missing, None}

\* C24 (the claim as stated): handle_external_input of both adapters never
\* raises; it returns an envelope, and for malformed input an ErrorMessage:
\* kind Error, with error_code and error_message.
C24_ExternalInputNeverRaises ==
    /\ external_input.pc # "raised"
    /\ (external_input.pc = "returned" /\ Malformed) =>
          /\ external_input.result.type = "error"
          /\ external_input.result.cls = "ErrorMessage"
          /\ {"error_code", "error_message"} \subseteq DOMAIN external_input.result

\* C25: a call of send_message of the TelegramAdapter or the WebhookAdapter
\* never raises.  Given a response or an ErrorMessage it returns at once when
\* the bot is not initialized, when the message has no chat id, when the
\* message has no data, and always for the WebhookAdapter; otherwise it waits
\* for Bot.send_message and returns whether that delivers the text or fails,
\* a failure being logged and nothing delivered.
C25_SendMessageNeverRaises ==
    /\ [](send_call.pc \in {"idle", "bot_send", "returned"})
    /\ [][(send_call.pc = "idle" /\ send_call'.pc # "idle") =>
             IF send_call'.adapter = "telegram_adapter" /\ bot # None
                  /\ Truthy(get(send_call'.message.context.chat_id, None))
                  /\ send_call'.message.type = "response"
               THEN send_call'.pc = "bot_send" /\ outbox' = outbox
               ELSE send_call'.pc = "returned" /\ outbox' = outbox]_vars
    /\ [][(send_call.pc = "bot_send" /\ send_call'.pc # "bot_send") =>
             /\ send_call'.pc = "returned"
             /\ \/ send_call'.log = None /\ Len(outbox') = Len(outbox) + 1
                \/ send_call'.log # None /\ outbox' = outbox]_vars

\* C25: the bot is initialized, the failed response carries the chat id,
\* Bot.send_message failed, and send_message returned with the failure
\* logged and nothing delivered.
C25_Witness ==
    /\ send_call.pc = "returned"
    /\ send_call.adapter = "telegram_adapter"
    /\ bot = "Bot"
    /\ send_call.message.type = "response" /\ ~send_call.message.success
    /\ send_call.message.context.chat_id = "chat1"
    /\ send_call.log = "Erro ao enviar mensagem para o Telegram"
    /\ outbox = <<>>

\* C26: every ResponseMessage the EstudosAgent returns for a request has the
\* request's context, the request's source as target and the agent's id as
\* source; the message the router gives the agent has the envelope's fields,
\* and what the task passes to the adapter is the agent's response itself,
\* so every response sent for an envelope carries the envelope's context.
C26_ResponseEchoesAddressing ==
    /\ [](\A c \in Calls :
            call_pc[c] = "done" =>
               /\ call_result[c].context = call_msg[c].context
               /\ call_result[c].target = call_msg[c].source
               /\ call_result[c].source = agent_id("estudos_agent"))
    /\ [][\A m \in Slots, c \in Calls :
            (pc[m] = "agent" /\ Called(c)) =>
               /\ call_msg'[c].id = env[m].id
               /\ call_msg'[c].source = env[m].source
               /\ call_msg'[c].user_id = env[m].user_id
               /\ call_msg'[c].context = env[m].context
               /\ env'[m] = env[m]]_vars
    /\ [][\A m \in Slots :
            (pc[m] = "agent" /\ pc'[m] # "agent") =>
               /\ response'[m] = call_result[1]
               /\ env[m].source \in DOMAIN adapters =>
                     sent'[m] = <<[adapter |-> adapters[env[m].source],
                                   msg |-> call_result[1]]>>]_vars
    /\ [](\A m \in Slots : \A i \in Replies(m) :
            /\ sent[m][i].msg.context = env[m].context
            /\ sent[m][i].msg.target = env[m].source
            /\ sent[m][i].msg.source = agent_id(task_agent[m]))

\* C26: a quiz command came from the telegram adapter with the chat in its
\* context, and the quiz the agent generated was passed to that adapter with
\* the same context.
C26_Witness ==
    /\ pc[1] = "t_done"
    /\ env[1].source = "telegram"
    /\ env[1].context.chat_id = "chat1"
    /\ Len(sent[1]) = 1
    /\ sent[1][1].adapter = "telegram_adapter"
    /\ sent[1][1].msg.success
    /\ "quiz" \in DOMAIN sent[1][1].msg.data
    /\ sent[1][1].msg.context = env[1].context
    /\ sent[1][1].msg.target = "telegram"
    /\ sent[1][1].msg.source = "estudos"

\* C27: handle_message has returned (None) as soon as the envelope's task
\* exists, while its agent call is still in progress; an agent call that has
\* not returned holds nothing else back: the next envelope can be handed to
\* handle_message, and every agent call in progress can return, whatever
\* the other envelopes are doing, so the replies may come in either order.
C27_IndependentTasks ==
    /\ [][\A m \in Slots :
            (pc[m] = "new" /\ pc'[m] = "agent") =>
               /\ ret'[m] = NoMessage
               /\ m \in running_tasks'
               /\ response'[m] = response[m]
               /\ sent'[m] = <<>>]_vars
    /\ [](\A m \in Slots :
            (pc[m] = "new" /\ \A k \in 1..(m - 1) : pc[k] # "new") =>
               ENABLED (\E e \in ConcEnvelopes(m) : handle_message(m, e)))
    /\ [](\A m \in Slots :
            pc[m] = "agent" => ENABLED agent_returns(m, TRUE))

\* C27: two envelopes were accepted and handle_message returned for both;
\* the agent call of the first has not returned, and meanwhile the second
\* was processed and its reply sent, the first's task still running.
C27_Witness ==
    /\ pc[1] = "agent" /\ pc[2] = "t_done"
    /\ ret[1] = NoMessage /\ ret[2] = NoMessage
    /\ running_tasks = {1}
    /\ sent[1] = <<>>
    /\ Replies(2) = {1}

\* C28: with an agent registered as "estudos", a CommandMessage without
\* target is routed to that agent; the agent's call for the command "resumo"
\* with a topic waits for the provider, and when the provider succeeds the
\* call returns a ResponseMessage with success = TRUE whose data holds the
\* key "resumo" (the provider's summary of the topic), answering the command;
\* a successful response to a resumo command always holds that key.
C28_ScenarioA ==
    /\ [][\A e \in DeliverEnvelopes(1) :
            (handle_message(1, e) /\ e.type = "command" /\ e.target = None
                /\ "estudos" \in DOMAIN agents) =>
               /\ pc'[1] = "agent"
               /\ task_agent'[1] = agents["estudos"]
               /\ built'[1] = <<>>]_vars
    /\ [][resumo_returns(1, "ok") =>
            /\ call_msg[1].command = "resumo"
            /\ Truthy(call_msg[1].parameters.topico)
            /\ call_pc'[1] = "done"
            /\ call_result'[1].type = "response"
            /\ call_result'[1].success
            /\ "resumo" \in DOMAIN call_result'[1].data
            /\ call_result'[1].data.resumo
                  = generate_resume(call_msg[1].parameters.topico).resumo
            /\ call_result'[1].response_to = env[1].id]_vars
    /\ [](\A c \in Calls :
            (call_pc[c] = "done" /\ call_msg[c].cls = "CommandMessage"
                /\ call_msg[c].command = "resumo" /\ call_result[c].success) =>
               "resumo" \in DOMAIN call_result[c].data)

\* C28: the command resumo with topico "HTTP" and no target was routed to
\* the agent registered as "estudos", the provider succeeded, and the call
\* returned a successful ResponseMessage whose data holds the summary.
C28_Witness ==
    /\ "estudos" \in DOMAIN agents /\ agents["estudos"] = "estudos_agent"
    /\ env[1].type = "command" /\ env[1].target = None
    /\ pc[1] = "agent" /\ task_agent[1] = "estudos_agent"
    /\ call_pc[1] = "done"
    /\ call_msg[1].command = "resumo"
    /\ call_msg[1].parameters.topico = "HTTP"
    /\ call_result[1].type = "response"
    /\ call_result[1].success
    /\ "resumo" \in DOMAIN call_result[1].data
    /\ call_result[1].data.resumo = <<"resumo", "HTTP">>

\* C29: when the router's ErrorMessage for an envelope of the "telegram"
\* source has been given to the initialized TelegramAdapter, it carries the
\* chat of the envelope's context, and once send_message has returned a
\* text has been sent to that chat.
C29_ErrorReachesChat ==
    \A m \in Slots :
        (/\ env[m].source = "telegram"
         /\ bot # None
         /\ send_call.adapter = "telegram_adapter"
         /\ send_call.message.type = "error"
         /\ send_call.message.original_message_id = env[m].id) =>
           /\ get(send_call.message.context.chat_id, None)
                 = get(env[m].context.chat_id, None)
           /\ send_call.pc = "returned" =>
                 \E i \in DOMAIN outbox : outbox[i].chat_id = env[m].context.chat_id

\* The dispatch tasks started and not yet finished: the agent call is in
\* progress, or the task awaits the adapter's send_message of the reply or
\* of the task's ErrorMessage.
Unfinished == { m \in Slots : pc[m] \in {"agent", "t_send", "t_err"} }

\* C30 as stated: running_tasks holds exactly the dispatch tasks started and
\* not yet finished, and once every agent call has returned it is empty.
C30_RunningTasks ==
    /\ running_tasks = Unfinished
    /\ (\A m \in Slots : pc[m] # "agent") => running_tasks = {}

\* C30 amended: running_tasks holds exactly the dispatch tasks started and
\* not yet finished; a task enters the set only in the step in which
\* handle_message routes its envelope to an agent, leaves it only in the
\* step in which the task ends (after the reply, on the error path, or with
\* an exception), and the step that rejects an envelope with a router error
\* leaves the set alone; hence once every task has finished, the sending of
\* its reply or of its ErrorMessage included, the set is empty.
C30_RunningTasksAmended ==
    /\ [](running_tasks = Unfinished)
    /\ [][\A m \in Slots :
            /\ (m \notin running_tasks /\ m \in running_tasks') =>
                  (pc[m] = "new" /\ pc'[m] = "agent")
            /\ (m \in running_tasks /\ m \notin running_tasks') =>
                  (pc[m] \in {"agent", "t_send", "t_err"} /\ TaskEnded(m)')
            /\ (Accepted(m) /\ pc'[m] # "agent") =>
                  (built'[m] # <<>> /\ running_tasks' = running_tasks)]_vars
    /\ []((\A m \in Slots : pc[m] \in {"new", "h_done", "h_raised"} \/ TaskEnded(m))
            => running_tasks = {})

\* C30: the first envelope was rejected with a router error, the second was
\* routed and its agent call has returned; its task, still sending the
\* reply, is the only one in the set.
C30_Witness ==
    /\ pc[1] = "h_done" /\ Len(built[1]) = 1
    /\ pc[2] = "t_send"
    /\ response[2].type = "response"
    /\ running_tasks = {2}

\* The router is at a point where it has something for the envelope's
\* source in this step: handle_message rejects the envelope, or the agent
\* call ends (by returning or by raising).
Outcome(m) ==
    \/ Accepted(m) /\ pc'[m] # "agent"
    \/ pc[m] = "agent" /\ pc'[m] # "agent"

\* The send_message the slot was awaiting raised in this step: the except
\* clause around it builds another ErrorMessage.
SendRaised(m) ==
    /\ pc[m] \in {"h_send", "t_send"}
    /\ SendCanRaise(awaiting[m])
    /\ Len(built'[m]) = Len(built[m]) + 1

\* C31: when the envelope is rejected or its agent call ends and the source
\* is a registered adapter, send_message is called once, on the adapter
\* bound to the source, with the response or with one ErrorMessage; a call
\* is made on no other adapter, and a further call for the same envelope is
\* made only in a step in which the send_message awaited raised; so when
\* the handling has ended without a send_message raising there was exactly
\* one call.
C31_ExactlyOneSend ==
    /\ [][\A m \in Slots :
            (Outcome(m) /\ env'[m].source \in DOMAIN adapters) =>
               /\ Len(sent'[m]) = 1
               /\ sent'[m][1].adapter = adapters[env'[m].source]
               /\ sent'[m][1].msg.type \in {"response", "error"}]_vars
    /\ [][\A m \in Slots :
            sent'[m] # sent[m] =>
               /\ Len(sent'[m]) = Len(sent[m]) + 1
               /\ SubSeq(sent'[m], 1, Len(sent[m])) = sent[m]
               /\ sent'[m][Len(sent'[m])].adapter = adapters[env'[m].source]
               /\ adapter_id(sent'[m][Len(sent'[m])].adapter) = env'[m].source
               /\ Outcome(m) \/ SendRaised(m)]_vars
    /\ [](\A m \in Slots :
            (pc[m] \in {"h_done", "t_done"} /\ sent[m] # <<>> /\ Len(built[m]) <= 1
                /\ (Replies(m) = {} \/ built[m] = <<>>)) =>
               Len(sent[m]) = 1)

\* C31: with adapters registered for both sources, a query from "webhook"
\* was processed, the task has ended, and the one send_message call made
\* for it went to the webhook adapter with the agent's response.
C31_Witness ==
    /\ DOMAIN adapters = {"telegram", "webhook"}
    /\ env[1].source = "webhook" /\ env[1].type = "query"
    /\ pc[1] = "t_done"
    /\ Len(sent[1]) = 1
    /\ sent[1][1].adapter = "webhook_adapter"
    /\ sent[1][1].msg.type = "response"
    /\ built[1] = <<>>

\* C32: the task's agent is the object bound to the id in the step in which
\* handle_message dispatched the envelope; a register_agent or
\* register_adapter while the task is in flight changes neither the task's
\* agent nor what was sent, and the agent that ends the call (one that
\* never raises cannot raise) is the task's; when the agent call ends, the
\* message goes to the adapter bound to the envelope's source at that
\* moment.
C32_BindingTimes ==
    /\ [][\A m \in Slots :
            (Accepted(m) /\ pc'[m] = "agent") =>
               task_agent'[m] = agents[agent_id(task_agent'[m])]]_vars
    /\ [][\A m \in Slots :
            (pc[m] = "agent" /\ (agents' # agents \/ adapters' # adapters)) =>
               /\ task_agent'[m] = task_agent[m]
               /\ pc'[m] = "agent"
               /\ sent'[m] = sent[m]]_vars
    /\ [][\A m \in Slots :
            (pc[m] = "agent" /\ pc'[m] # "agent") =>
               /\ task_agent'[m] = task_agent[m]
               /\ built'[m] # built[m] => AgentCanRaise(task_agent[m])
               /\ env[m].source \in DOMAIN adapters =>
                     /\ sent'[m][Len(sent'[m])].adapter = adapters[env[m].source]
                     /\ awaiting'[m] = adapters[env[m].source]]_vars
    /\ [](\A m \in Slots :
            (pc[m] = "agent" /\ ~AgentCanRaise(task_agent[m])) =>
               ~ENABLED agent_raises(m))

\* C32: "estudos" was rebound to estudos_other and "telegram" to
\* telegram_other while the first envelope was with estudos_agent; its call
\* has returned and the reply was passed to telegram_other, and the second
\* envelope, dispatched after the rebinding, is with estudos_other.
C32_Witness ==
    /\ "estudos" \in DOMAIN agents /\ "telegram" \in DOMAIN adapters
    /\ agents["estudos"] = "estudos_other" /\ "estudos_agent" \in superseded
    /\ adapters["telegram"] = "telegram_other"
    /\ message_handler["telegram_adapter"] = "handle_message"
    /\ task_agent[1] = "estudos_agent" /\ pc[1] = "t_send"
    /\ sent[1] = <<[adapter |-> "telegram_other", msg |-> response[1]]>>
    /\ task_agent[2] = "estudos_other" /\ pc[2] = "agent"

\* The quiz stored for the user as the active one.
quiz_atual(user_id) == user_state[user_id].quiz_atual

\* C33: the handlers read and write the user's state on either side of the
\* await of the provider, with nothing to order overlapping calls.  A quiz
\* that completes stores its questions over whatever is there (another
\* quiz's, or the null a responder left), whichever command was given first
\* and whichever reply reaches the chat last; a responder that runs while a
\* quiz is being generated is graded against the quiz stored at that moment
\* (or refused when there is none), sets quiz_atual to null and leaves the
\* quiz call waiting; and replies that are ready can reach the chat in
\* either order.
C33_StateRaces ==
    /\ [][\A c \in Calls :
            (call_pc[c] = "quiz_await" /\ call_pc'[c] = "done" /\ call_result'[c].success) =>
               quiz_atual(call_msg[c].user_id)' = QuizList(call_result'[c].data.quiz)]_vars
    /\ [][\A c \in Calls :
            (call_pc[c] = "idle" /\ call_pc'[c] = "done"
                /\ call_msg'[c].command = "responder") =>
               /\ \A d \in Calls \ {c} : call_pc'[d] = call_pc[d]
               /\ IF quiz_atual("u1").items = <<>>
                    THEN ~call_result'[c].success /\ user_state' = user_state
                    ELSE /\ call_result'[c].success
                         /\ call_result'[c].data.avaliacao.total
                               = Len(quiz_atual("u1").items)
                         /\ quiz_atual("u1")' = NullQuiz]_vars
    /\ [](\A c \in Calls :
            (call_pc[c] = "done" /\ Len(outbox) < MaxDelivered) =>
               ENABLED reply_delivered(c))

\* C33: two quiz commands of u1 overlapped; both quizzes reached the chat,
\* the one with two questions last, and the store holds the other one.
C33_Witness ==
    /\ \A c \in Calls : call_pc[c] = "idle"
    /\ Len(outbox) = 2
    /\ outbox[1].text = <<"QUIZ", <<0>>>>
    /\ outbox[2].text = <<"QUIZ", <<1, 3>>>>
    /\ quiz_atual("u1") = QuizList(<<0>>)

\* Call c is a responder command of a user, with answers, answered in this
\* step.
ResponderAnswered(c) ==
    /\ call_pc[c] = "idle" /\ call_pc'[c] = "done"
    /\ call_msg'[c].cls = "CommandMessage" /\ call_msg'[c].command = "responder"
    /\ call_msg'[c].parameters.respostas # <<>>
    /\ Truthy(call_msg'[c].user_id)

\* Call c is a quiz command answered with success in this step.
QuizSucceeded(c) ==
    /\ call_pc[c] = "quiz_await" /\ call_pc'[c] = "done"
    /\ call_msg[c].command = "quiz"
    /\ call_result'[c].success

\* C34: with the commands of a user processed one after another, a
\* responder with answers succeeds exactly when the user's quiz_atual holds
\* questions, and is refused with "Nao ha um quiz ativo" otherwise;
\* quiz_atual, empty at first, changes only when a quiz command of the user
\* succeeds (to its questions, at least one) and when a responder succeeds
\* (to null), so it holds questions exactly when a quiz succeeded and no
\* responder has succeeded since; a failed responder leaves the user's
\* state as it was.
C34_ResponderAfterQuiz ==
    /\ [][\A c \in Calls :
            ResponderAnswered(c) =>
               LET u == call_msg'[c].user_id IN
               IF quiz_atual(u).items # <<>>
                 THEN /\ call_result'[c].success
                      /\ user_state'[u].quiz_atual = NullQuiz
                 ELSE /\ ~call_result'[c].success
                      /\ call_result'[c].data.error
                            = <<"Nao ha um quiz ativo. Gere um quiz primeiro com /quiz <topico>.", "">>
                      /\ user_state' = user_state]_vars
    /\ [][\A c \in Calls :
            (QuizSucceeded(c) /\ Truthy(call_msg[c].user_id)) =>
               /\ call_result'[c].data.quiz # <<>>
               /\ quiz_atual(call_msg[c].user_id)' = QuizList(call_result'[c].data.quiz)]_vars
    /\ [][\A u \in DOMAIN user_state :
            quiz_atual(u)' # quiz_atual(u) =>
               \E c \in Calls :
                  \/ QuizSucceeded(c) /\ call_msg[c].user_id = u
                  \/ /\ ResponderAnswered(c) /\ call_msg'[c].user_id = u
                     /\ call_result'[c].success]_vars
    /\ [](\A u \in DOMAIN user_state : quiz_atual(u).kind = Missing => quiz_atual(u) = NoQuiz)

\* C34: a responder of u1 was graded and cleared the quiz, and the responder
\* that followed it has been refused: there is no active quiz.
C34_Witness ==
    /\ call_pc[1] = "done"
    /\ call_msg[1].command = "responder" /\ call_msg[1].user_id = "u1"
    /\ call_msg[1].parameters.respostas # <<>>
    /\ quiz_atual("u1") = NullQuiz
    /\ ~call_result[1].success
    /\ call_result[1].data.error
          = <<"Nao ha um quiz ativo. Gere um quiz primeiro com /quiz <topico>.", "">>

\* The topic recorded for the user as the last one.
ultimo_topico(user_id) == user_state[user_id].ultimo_topico

\* Call c is a quiz command of a user taken by process_message in this step.
QuizTaken(c) ==
    /\ call_pc[c] = "idle" /\ call_pc'[c] # "idle"
    /\ call_msg'[c].cls = "CommandMessage" /\ call_msg'[c].command = "quiz"
    /\ Truthy(call_msg'[c].user_id)

\* C35: a quiz command of a user with an empty topic takes the user's
\* ultimo_topico, or "geral" when none is stored; the topic taken (or given)
\* is stored as ultimo_topico in the same step, before the provider is
\* awaited and also when there is no provider; the provider's quiz is for
\* that topic, and whatever the provider answers, the topic stays stored;
\* ultimo_topico is written by resumo and quiz commands only.
C35_QuizTopic ==
    /\ [][\A c \in Calls :
            QuizTaken(c) =>
               LET u == call_msg'[c].user_id
                   given == call_msg'[c].parameters.topico IN
               /\ call_topico'[c] =
                     IF Truthy(given) THEN given
                     ELSE IF ultimo_topico(u) = Missing THEN "geral" ELSE ultimo_topico(u)
               /\ user_state'[u].ultimo_topico = call_topico'[c]
               /\ call_pc'[c] \in {"quiz_await", "done"}
               /\ call_pc'[c] = "done" <=> model_provider = None]_vars
    /\ [][\A c \in Calls :
            (call_pc[c] = "quiz_await" /\ call_pc'[c] = "done") =>
               /\ Truthy(call_msg[c].user_id) =>
                     user_state'[call_msg[c].user_id].ultimo_topico = call_topico[c]
               /\ call_result'[c].success => call_result'[c].data.topic = call_topico[c]]_vars
    /\ [][\A u \in DOMAIN user_state :
            user_state'[u].ultimo_topico # ultimo_topico(u) =>
               \E c \in Calls :
                  /\ call_pc[c] = "idle" /\ call_msg'[c].user_id = u
                  /\ call_msg'[c].command \in {"resumo", "quiz"}]_vars

\* C35: u1 asked for a quiz without a topic after a resumo of "HTTP"; the
\* quiz was asked of the provider for "HTTP", the generation failed, and
\* "HTTP" is still the topic stored.
C35_Witness ==
    /\ call_pc[1] = "done"
    /\ call_msg[1].command = "quiz" /\ call_msg[1].user_id = "u1"
    /\ call_msg[1].parameters.topico = ""
    /\ call_topico[1] = "HTTP"
    /\ ~call_result[1].success
    /\ call_result[1].data.error = <<"Erro ao gerar quiz sobre", "HTTP">>
    /\ ultimo_topico("u1") = "HTTP"

\* Call c is a resumo command taken by process_message in this step.
ResumoTaken(c) ==
    /\ call_pc[c] = "idle" /\ call_pc'[c] # "idle"
    /\ call_msg'[c].cls = "CommandMessage" /\ call_msg'[c].command = "resumo"

\* C36: a resumo command without a topic is answered at once with a failed
\* response, the provider is not awaited and the stored state of every
\* user stays as it was; with a topic and a user id the topic is stored as
\* ultimo_topico in that step, with and without a provider, and stays
\* stored whatever the provider answers.
C36_ResumoTopic ==
    /\ [][\A c \in Calls :
            ResumoTaken(c) =>
               LET u == call_msg'[c].user_id
                   topico == call_msg'[c].parameters.topico IN
               IF ~Truthy(topico)
                 THEN /\ call_pc'[c] = "done"
                      /\ ~call_result'[c].success
                      /\ call_result'[c].data.error
                            = <<"Por favor, forneca um topico. Exemplo: /resumo HTTP", "">>
                      /\ user_state' = user_state
                 ELSE /\ Truthy(u) => user_state'[u].ultimo_topico = topico
                      /\ ~Truthy(u) => user_state' = user_state
                      /\ call_pc'[c] = IF model_provider = None THEN "done"
                                                                ELSE "resumo_await"]_vars
    /\ [][\A c \in Calls :
            (call_pc[c] = "resumo_await" /\ call_pc'[c] # "resumo_await") =>
               /\ user_state' = user_state
               /\ Truthy(call_msg[c].user_id) =>
                     ultimo_topico(call_msg[c].user_id) = call_msg[c].parameters.topico]_vars

\* C36: after a resumo of "TCP" had stored the topic for u1, a resumo
\* without topic was refused and "TCP" is still stored.
C36_Witness ==
    /\ call_pc[1] = "done"
    /\ call_msg[1].command = "resumo" /\ call_msg[1].user_id = "u1"
    /\ call_msg[1].parameters.topico = ""
    /\ ~call_result[1].success
    /\ call_result[1].data.error
          = <<"Por favor, forneca um topico. Exemplo: /resumo HTTP", "">>
    /\ ultimo_topico("u1") = "TCP"

\* The answer text as n entries: position i holds 0..3 for the letters A-D
\* in either case, and -1 for any other character and for a position the
\* text does not reach.
Normalised(texto, n) ==
    [i \in 1..n |->
       IF i > Len(texto) THEN -1
       ELSE CASE texto[i] \in {"A", "a"} -> 0
              [] texto[i] \in {"B", "b"} -> 1
              [] texto[i] \in {"C", "c"} -> 2
              [] texto[i] \in {"D", "d"} -> 3
              [] OTHER -> -1]

\* C37: when a responder is graded against the active quiz of n questions,
\* the evaluation has total = n and one detail per question; pontuacao is
\* the number of positions at which the normalised answer is the stored
\* resposta_correta, between 0 and total; a position is marked correct
\* exactly when they are equal, and never when the answer is invalid or
\* missing.
C37_Grading ==
    [][\A c \in Calls :
         (ResponderAnswered(c) /\ call_result'[c].success) =>
            LET quiz == quiz_atual(call_msg'[c].user_id).items
                n == Len(quiz)
                respostas == Normalised(call_msg'[c].parameters.respostas, n)
                avaliacao == call_result'[c].data.avaliacao IN
            /\ n > 0
            /\ avaliacao.total = n
            /\ Len(avaliacao.detalhes) = n
            /\ avaliacao.pontuacao = Cardinality({i \in 1..n : respostas[i] = quiz[i]})
            /\ 0 <= avaliacao.pontuacao /\ avaliacao.pontuacao <= avaliacao.total
            /\ \A i \in 1..n :
                  /\ avaliacao.detalhes[i].acertou <=> respostas[i] = quiz[i]
                  /\ respostas[i] = -1 => ~avaliacao.detalhes[i].acertou]_vars


\* The user's state besides last_update.
Stored(state) == [key \in StateKeys |-> state[key]]

\* C38: save_state(u, d) merges: afterwards get_state(u) has d's value for
\* every key of d and the value it had for every other key (last_update,
\* which becomes the time of the save, apart), and the state of every other
\* user is as it was; get_state of a user never saved is the empty mapping;
\* delete_state(u) returns true exactly when the user had a state, and
\* get_state(u) is empty afterwards.
C38_SaveMerges ==
    /\ [][\A u \in StateUsers :
            /\ \A d \in StateData :
                  StateManager_save_state(u, d) =>
                      /\ \A key \in StateKeys :
                            get_state(u)'[key] = IF has_key(d, key) THEN d[key]
                                                 ELSE get_state(u)[key]
                      /\ get_state(u)'.last_update = now
                      /\ \A v \in StateUsers \ {u} : get_state(v)' = get_state(v)
            /\ StateManager_get_state(u) =>
                  state_call'.state = get_state(u) /\ user_state' = user_state
            /\ StateManager_delete_state(u) =>
                  /\ state_call'.deleted = (get_state(u) # EmptyState)
                  /\ get_state(u)' = EmptyState
                  /\ \A v \in StateUsers \ {u} : get_state(v)' = get_state(v)
            /\ (get_state(u) = EmptyState /\ ~(\E d \in StateData : StateManager_save_state(u, d)))
                  => get_state(u)' = EmptyState]_vars
    /\ [](state_call = NoStateCall => \A u \in StateUsers : get_state(u) = EmptyState)

\* C38 witness: a save for u1 that gave a new quiz_atual and no ultimo_topico
\* has kept the ultimo_topico stored before, while u2 has a state of its own.
C38_Witness ==
    /\ state_call.method = "save_state" /\ state_call.user_id = "u1"
    /\ state_call.data.quiz_atual = NullQuiz
    /\ ~has_key(state_call.data, "ultimo_topico")
    /\ get_state("u1").ultimo_topico = "HTTP"
    /\ get_state("u1").quiz_atual = NullQuiz
    /\ get_state("u2").ultimo_topico = "TCP"


\* The first word of a text, without its leading slash.
FirstWord(text) ==
    LET ends == {i \in 1..(Len(text) + 1) : i = Len(text) + 1 \/ text[i] = " "}
        end == CHOOSE i \in ends : \A j \in ends : i <= j IN
    Join(SubSeq(text, 2, end - 1))

\* C39: of the text of a Telegram message, TelegramAdapter.handle_external_input
\* makes a CommandMessage when the text begins with "/", its command the
\* first word without the slash, and a QueryMessage otherwise; start, resumo,
\* quiz and responder get target "estudos", any other command and every query
\* no target; the envelope has source "telegram", the sender's id as user_id
\* and the chat id in its context.  Given to the router by the callback, an
\* envelope without target is routed by the selection policy, and one with
\* target "estudos" goes to the agent registered under that id without it.
C39_TelegramMapping ==
    [][/\ \A update \in TelegramUpdates, id \in Slots :
             (/\ TelegramAdapter_handle_external_input(update, id)
              /\ update.message /\ update.text # NoText /\ update.from_user # None) =>
                 LET produced == external_input'.result IN
                 /\ external_input'.pc = "returned"
                 /\ produced.source = "telegram"
                 /\ produced.user_id = update.from_user
                 /\ produced.context.chat_id = update.chat
                 /\ IF Head(update.text) = "/"
                      THEN /\ produced.cls = "CommandMessage" /\ produced.type = "command"
                           /\ produced.command = FirstWord(update.text)
                           /\ produced.target =
                                 IF produced.command \in {"start", "resumo", "quiz", "responder"}
                                   THEN "estudos" ELSE None
                      ELSE /\ produced.cls = "QueryMessage" /\ produced.type = "query"
                           /\ produced.query = Join(update.text)
                           /\ produced.target = None
       /\ \A m \in Slots :
             (callback_handles(m) /\ external_input.result.type \in {"command", "query"}) =>
                 IF external_input.result.target = None
                   THEN /\ consulted'[m]
                        /\ task_agent'[m] = SelectedAgent(env'[m])
                   ELSE "estudos" \in DOMAIN agents =>
                          ~consulted'[m] /\ task_agent'[m] = agents["estudos"]]_vars

\* C39 witness: "/ajuda" became a CommandMessage "ajuda" without target, the
\* callback gave it to the router, and the selection policy chose the
\* registered EstudosAgent for it.
C39_Witness ==
    \E m \in Slots :
        /\ external_input.pc = "returned"
        /\ external_input.raw.text = <<"/", "ajuda">>
        /\ external_input.result.cls = "CommandMessage"
        /\ external_input.result.command = "ajuda"
        /\ external_input.result.target = None
        /\ external_input.result.id = m
        /\ env[m] = RouterEnvelope(external_input.result)
        /\ consulted[m]
        /\ task_agent[m] = "estudos_agent"

====
